---- MODULE Spec2Model ----
(***************************************************************************)
(* A model of the pull-request approval bot: the approval engine of        *)
(* lib/approval.js (replay of a review history into per-login state and    *)
(* the two-team verdict) and the webhook workflows of lib/handlers.js,     *)
(* lib/github-api.js and api/bot.js.                                       *)
(***************************************************************************)
EXTENDS Integers, Sequences, FiniteSets, TLC

(***************************************************************************)
(* Bounds of the model.                                                    *)
(***************************************************************************)
\* longest review list the replay loop of checkApprovalStatus iterates over
MaxReviews == 3

\* most reviews submitted on the pull request the deliveries are about
MaxPrReviews == 2

\* the clock stops here
MaxClock == 240

(***************************************************************************)
(* Values.                                                                 *)
(***************************************************************************)
\* GitHub logins that submit reviews
Users == {"alice", "bob", "carol"}

\* r.state as GitHub delivers it: the five documented states, one of them
\* also in lower case, and a state the switch does not know
RawStates ==
  {"APPROVED", "CHANGES_REQUESTED", "DISMISSED", "COMMENTED", "PENDING",
   "approved", "REQUEST_CHANGES"}

\* one element of the list api.getReviews returns
ReviewSubmissions == [user : Users, state : RawStates]

\* every roster a configuration can hold: the duplicate-free lists of logins
Rosters ==
  {s \in UNION {[1..n -> Users] : n \in 0..Cardinality(Users)} :
     \A i \in DOMAIN s, j \in DOMAIN s : i # j => s[i] # s[j]}

\* set of the elements of a list
Range(s) == {s[k] : k \in 1..Len(s)}

(***************************************************************************)
(* lib/approval.js: the replay.                                            *)
(***************************************************************************)
\* String.prototype.toUpperCase on the states above
toUpperCase(s) ==
  CASE s = "approved" -> "APPROVED"
    [] s = "changes_requested" -> "CHANGES_REQUESTED"
    [] s = "dismissed" -> "DISMISSED"
    [] s = "commented" -> "COMMENTED"
    [] s = "pending" -> "PENDING"
    [] OTHER -> s

\* { approved: false, blocked: false }
NewReviewerState == [approved |-> FALSE, blocked |-> FALSE]

\* const status = {}: an object with no key.  An object keeps its keys in
\* the order they were inserted, so status is the list of its entries
\* [login, approved, blocked] in insertion order
EmptyStatus == <<>>

\* u is a key of status
HasKey(st, u) == \E k \in DOMAIN st : st[k].login = u

\* Object.keys(status)
Keys(st) == [k \in DOMAIN st |-> st[k].login]

\* what reading status[u] gives: an absent login reads as undefined, whose
\* approved and blocked are falsy
StateOf(st, u) ==
  IF HasKey(st, u)
    THEN LET k == CHOOSE k \in DOMAIN st : st[k].login = u
         IN  [approved |-> st[k].approved, blocked |-> st[k].blocked]
    ELSE NewReviewerState

\* status[u] = s: an existing key keeps its place, a new key goes last
SetState(st, u, s) ==
  LET e == [login |-> u, approved |-> s.approved, blocked |-> s.blocked]
  IN  IF HasKey(st, u)
        THEN [k \in DOMAIN st |-> IF st[k].login = u THEN e ELSE st[k]]
        ELSE Append(st, e)

\* mutant of Transition: a review with changes requested does not clear the
\* reviewer's approval
Transition_BlockKeepsApproval(cur, reviewState) ==
  CASE reviewState = "APPROVED" -> [approved |-> TRUE, blocked |-> FALSE]
    [] reviewState = "CHANGES_REQUESTED" -> [approved |-> cur.approved, blocked |-> TRUE]
    [] reviewState = "DISMISSED" -> [approved |-> FALSE, blocked |-> FALSE]
    [] reviewState = "COMMENTED" -> cur
    [] reviewState = "PENDING" -> [approved |-> FALSE, blocked |-> FALSE]
    [] OTHER -> cur

\* mutant of Transition: an approval, once given, outlasts a later request
\* for changes
Transition_ApprovalSticks(cur, reviewState) ==
  CASE reviewState = "APPROVED" -> [approved |-> TRUE, blocked |-> FALSE]
    [] reviewState = "CHANGES_REQUESTED" ->
         IF cur.approved THEN cur ELSE [approved |-> FALSE, blocked |-> TRUE]
    [] reviewState = "DISMISSED" -> [approved |-> FALSE, blocked |-> FALSE]
    [] reviewState = "COMMENTED" -> cur
    [] reviewState = "PENDING" -> [approved |-> FALSE, blocked |-> FALSE]
    [] OTHER -> cur

\* mutant of Transition: a pending review is ignored, like a comment
Transition_PendingIgnored(cur, reviewState) ==
  CASE reviewState = "APPROVED" -> [approved |-> TRUE, blocked |-> FALSE]
    [] reviewState = "CHANGES_REQUESTED" -> [approved |-> FALSE, blocked |-> TRUE]
    [] reviewState = "DISMISSED" -> [approved |-> FALSE, blocked |-> FALSE]
    [] reviewState = "COMMENTED" -> cur
    [] reviewState = "PENDING" -> cur
    [] OTHER -> cur

\* mutant of Transition: a comment clears the reviewer's state, like a
\* dismissal
Transition_CommentClears(cur, reviewState) ==
  CASE reviewState = "APPROVED" -> [approved |-> TRUE, blocked |-> FALSE]
    [] reviewState = "CHANGES_REQUESTED" -> [approved |-> FALSE, blocked |-> TRUE]
    [] reviewState = "DISMISSED" -> [approved |-> FALSE, blocked |-> FALSE]
    [] reviewState = "COMMENTED" -> [approved |-> FALSE, blocked |-> FALSE]
    [] reviewState = "PENDING" -> [approved |-> FALSE, blocked |-> FALSE]
    [] OTHER -> cur

\* mutant of Transition: a state the switch does not know clears the
\* reviewer's state
Transition_UnknownClears(cur, reviewState) ==
  CASE reviewState = "APPROVED" -> [approved |-> TRUE, blocked |-> FALSE]
    [] reviewState = "CHANGES_REQUESTED" -> [approved |-> FALSE, blocked |-> TRUE]
    [] reviewState = "DISMISSED" -> [approved |-> FALSE, blocked |-> FALSE]
    [] reviewState = "COMMENTED" -> cur
    [] reviewState = "PENDING" -> [approved |-> FALSE, blocked |-> FALSE]
    [] OTHER -> [approved |-> FALSE, blocked |-> FALSE]

\* the switch on reviewState: the state of the reviewer after the review
Transition(cur, reviewState) ==
  CASE reviewState = "APPROVED" -> [approved |-> TRUE, blocked |-> FALSE]
    [] reviewState = "CHANGES_REQUESTED" -> [approved |-> FALSE, blocked |-> TRUE]
    [] reviewState = "DISMISSED" -> [approved |-> FALSE, blocked |-> FALSE]
    [] reviewState = "COMMENTED" -> cur
    [] reviewState = "PENDING" -> [approved |-> FALSE, blocked |-> FALSE]
    [] OTHER -> cur

\* mutant of IsRequested: the requested reviewers are not looked at
IsRequested_Never(u, requested) == FALSE

\* requestedReviewers.includes(u)
IsRequested(u, requested) == u \in requested

\* mutant of ApplyReview: the review of a requested reviewer clears the
\* approval and keeps the block
ApplyReview_ResetKeepsBlock(st, r, requested) ==
  LET u == r.user
      reviewState == toUpperCase(r.state)
      cur == StateOf(st, u)
  IN  IF IsRequested(u, requested)
        THEN SetState(st, u, [approved |-> FALSE,
                              blocked |-> cur.blocked \/ reviewState = "CHANGES_REQUESTED"])
        ELSE SetState(st, u, Transition(cur, reviewState))

\* one iteration of `for (const r of reviews)`
ApplyReview(st, r, requested) ==
  LET u == r.user
      reviewState == toUpperCase(r.state)
      cur == StateOf(st, u)
  IN  IF IsRequested(u, requested)
        THEN SetState(st, u, [approved |-> FALSE, blocked |-> FALSE])
        ELSE SetState(st, u, Transition(cur, reviewState))

\* the whole loop, from the mapping st: the loop over the first half of the
\* list, and then the loop over the rest from the mapping the first half
\* has left (both branches continue from that mapping; comparing it first
\* has it computed before the rest of the list is taken up)
RECURSIVE Replay(_, _, _)
Replay(rs, requested, st) ==
  IF rs = <<>> THEN st
  ELSE IF Len(rs) = 1 THEN ApplyReview(st, rs[1], requested)
  ELSE LET h == Len(rs) \div 2
           rest == SubSeq(rs, h + 1, Len(rs))
           mid == Replay(SubSeq(rs, 1, h), requested, st)
       IN  IF mid = st THEN Replay(rest, requested, st)
                       ELSE Replay(rest, requested, mid)

(***************************************************************************)
(* lib/approval.js: the verdict.                                           *)
(***************************************************************************)
\* Object.entries(status).filter(([, s]) => s.approved && !s.blocked)
\*   .map(([u]) => u)
approvedUsers(st) ==
  Keys(SelectSeq(st, LAMBDA e : e.approved /\ ~e.blocked))

\* mutant of BlockedBy: the blocking members in the order of their first
\* review (the order of the keys of status), not in roster order
BlockedBy_ArrivalOrder(st, roster) ==
  SelectSeq(Keys(st), LAMBDA u : u \in Range(roster) /\ StateOf(st, u).blocked)

\* ROSTER.filter(u => status[u]?.blocked)
BlockedBy(st, roster) == SelectSeq(roster, LAMBDA u : StateOf(st, u).blocked)

\* ROSTER.filter(u => approvedUsers.includes(u))
Approvers(st, roster) ==
  SelectSeq(roster, LAMBDA u : u \in Range(approvedUsers(st)))

\* mutant of Verdict: a team with an approval is OK whoever blocks
Verdict_ApprovalOnly(st, jump, anza) ==
  [jumpOk |-> Len(Approvers(st, jump)) > 0,
   anzaOk |-> Len(Approvers(st, anza)) > 0,
   jumpBlockedBy |-> BlockedBy(st, jump),
   anzaBlockedBy |-> BlockedBy(st, anza)]

\* mutant of Verdict: a team nobody blocks is OK, approved or not
Verdict_NoApprovalNeeded(st, jump, anza) ==
  [jumpOk |-> Len(BlockedBy(st, jump)) = 0,
   anzaOk |-> Len(BlockedBy(st, anza)) = 0,
   jumpBlockedBy |-> BlockedBy(st, jump),
   anzaBlockedBy |-> BlockedBy(st, anza)]

\* mutant of Verdict: status[u].blocked without the optional chaining, which
\* throws a TypeError for a roster member who has no key in status
Verdict_NoOptionalChaining(st, jump, anza) ==
  IF \E u \in Range(jump) \cup Range(anza) : ~HasKey(st, u)
    THEN [error |-> "TypeError"]
    ELSE [jumpOk |-> Len(Approvers(st, jump)) > 0 /\ Len(BlockedBy(st, jump)) = 0,
          anzaOk |-> Len(Approvers(st, anza)) > 0 /\ Len(BlockedBy(st, anza)) = 0,
          jumpBlockedBy |-> BlockedBy(st, jump),
          anzaBlockedBy |-> BlockedBy(st, anza)]

\* mutant of Verdict: a login on both rosters counts for the first team
\* only
Verdict_ExclusiveMembership(st, jump, anza) ==
  LET anzaOnly == SelectSeq(anza, LAMBDA u : u \notin Range(jump))
  IN  [jumpOk |-> Len(Approvers(st, jump)) > 0 /\ Len(BlockedBy(st, jump)) = 0,
       anzaOk |-> Len(Approvers(st, anzaOnly)) > 0 /\ Len(BlockedBy(st, anzaOnly)) = 0,
       jumpBlockedBy |-> BlockedBy(st, jump),
       anzaBlockedBy |-> BlockedBy(st, anzaOnly)]

\* the result object, for the rosters JUMP_APPROVERS = jump, ANZA_APPROVERS = anza
Verdict(st, jump, anza) ==
  LET jumpBlockedBy == BlockedBy(st, jump)
      anzaBlockedBy == BlockedBy(st, anza)
      hasJumpApproval == Len(Approvers(st, jump)) > 0
      hasAnzaApproval == Len(Approvers(st, anza)) > 0
  IN  [jumpOk |-> hasJumpApproval /\ Len(jumpBlockedBy) = 0,
       anzaOk |-> hasAnzaApproval /\ Len(anzaBlockedBy) = 0,
       jumpBlockedBy |-> jumpBlockedBy,
       anzaBlockedBy |-> anzaBlockedBy]

(***************************************************************************)
(* lib/config.js: the rosters, scaled down.  As in the configuration, the  *)
(* last login of each roster is on both.                                   *)
(***************************************************************************)
JUMP_APPROVERS == <<"alice", "bob">>

ANZA_APPROVERS == <<"carol", "bob">>

(***************************************************************************)
(* lib/approval.js: checkApprovalStatus and buildStatusMessage.            *)
(***************************************************************************)
\* pr.requested_reviewers?.map(r => r.login) || []
RequestedLogins(p) == IF p.hasRequested THEN p.requested_reviewers ELSE {}

\* checkApprovalStatus(pr, api), given the list api.getReviews returned
checkApprovalStatus(p, list) ==
  Verdict(Replay(list, RequestedLogins(p), EmptyStatus),
          JUMP_APPROVERS, ANZA_APPROVERS)

\* mutant of buildStatusMessage: the blocked-by clause is left out
buildStatusMessage_NoBlockedClause(v) ==
  IF v.jumpOk /\ v.anzaOk
    THEN [ready |-> TRUE, missing |-> <<>>, blocked |-> <<>>]
    ELSE [ready |-> FALSE,
          missing |->
            (IF ~v.jumpOk THEN <<[team |-> "Jump", logins |-> JUMP_APPROVERS]>> ELSE <<>>)
            \o (IF ~v.anzaOk THEN <<[team |-> "Anza", logins |-> ANZA_APPROVERS]>> ELSE <<>>),
          blocked |-> <<>>]

\* mutant of buildStatusMessage: a blocked team is named in the blocked-by
\* clause only
buildStatusMessage_BlockedHidesMissing(v) ==
  IF v.jumpOk /\ v.anzaOk
    THEN [ready |-> TRUE, missing |-> <<>>, blocked |-> <<>>]
    ELSE [ready |-> FALSE,
          missing |->
            (IF ~v.jumpOk /\ Len(v.jumpBlockedBy) = 0
               THEN <<[team |-> "Jump", logins |-> JUMP_APPROVERS]>> ELSE <<>>)
            \o (IF ~v.anzaOk /\ Len(v.anzaBlockedBy) = 0
                  THEN <<[team |-> "Anza", logins |-> ANZA_APPROVERS]>> ELSE <<>>),
          blocked |->
            (IF Len(v.jumpBlockedBy) > 0
               THEN <<[team |-> "Jump", logins |-> v.jumpBlockedBy]>> ELSE <<>>)
            \o (IF Len(v.anzaBlockedBy) > 0
                  THEN <<[team |-> "Anza", logins |-> v.anzaBlockedBy]>> ELSE <<>>)]

\* buildStatusMessage(status): the fixed ready message, or the teams of the
\* missing-approval clause with their rosters and the teams of the
\* blocked-by clause with their blockers
buildStatusMessage(v) ==
  IF v.jumpOk /\ v.anzaOk
    THEN [ready |-> TRUE, missing |-> <<>>, blocked |-> <<>>]
    ELSE [ready |-> FALSE,
          missing |->
            (IF ~v.jumpOk THEN <<[team |-> "Jump", logins |-> JUMP_APPROVERS]>> ELSE <<>>)
            \o (IF ~v.anzaOk THEN <<[team |-> "Anza", logins |-> ANZA_APPROVERS]>> ELSE <<>>),
          blocked |->
            (IF Len(v.jumpBlockedBy) > 0
               THEN <<[team |-> "Jump", logins |-> v.jumpBlockedBy]>> ELSE <<>>)
            \o (IF Len(v.anzaBlockedBy) > 0
                  THEN <<[team |-> "Anza", logins |-> v.anzaBlockedBy]>> ELSE <<>>)]

\* a comment without a status message
NoStatusMsg == [ready |-> FALSE, missing |-> <<>>, blocked |-> <<>>]

\* the fixed message of a pull request that is ready to merge
ReadyMessage == [ready |-> TRUE, missing |-> <<>>, blocked |-> <<>>]

\* the teams a clause of the status message names
TeamsIn(clause) == {clause[i].team : i \in DOMAIN clause}

\* the logins a clause of the status message names for a team
LoginsFor(clause, team) ==
  {clause[i].logins : i \in {k \in DOMAIN clause : clause[k].team = team}}

(***************************************************************************)
(* The requests GitHub and others send.                                    *)
(***************************************************************************)
\* the author of the pull request, on no roster
PrAuthor == "dave"

\* who comments: the author, or a roster member
Commenters == {"dave", "alice"}

\* comment bodies, as lists of characters (" " is any white space):
\* "hi", "/merge", " /merge x", "/d", "/merged", "h /merge", ""
Bodies ==
  { <<"h", "i">>,
    <<"/", "m", "e", "r", "g", "e">>,
    <<" ", "/", "m", "e", "r", "g", "e", " ", "x">>,
    <<"/", "d">>,
    <<"/", "m", "e", "r", "g", "e", "d">>,
    <<"h", " ", "/", "m", "e", "r", "g", "e">>,
    <<>> }

\* '/merge'
MergeCommand == <<"/", "m", "e", "r", "g", "e">>

\* review.state in a pull_request_review payload
WebhookStates == {"approved", "changes_requested", "commented", "dismissed"}

\* r.state of the reviews submitted while the deliveries run
PrReviewStates == {"APPROVED", "CHANGES_REQUESTED"}

NoReview == [user |-> "none", state |-> "none"]

\* a signed POST of an event the bot does not handle
PushRequest ==
  [method |-> "POST", readable |-> TRUE, signature |-> "valid", json |-> TRUE,
   installation |-> TRUE, event |-> "push", action |-> "none", isPR |-> FALSE,
   body |-> <<>>, commenter |-> "none", review |-> NoReview, urls |-> TRUE]

\* requests stopped before the routing
RejectedRequests ==
  { [PushRequest EXCEPT !.method = "GET"],
    [PushRequest EXCEPT !.method = "GET", !.signature = "none"],
    [PushRequest EXCEPT !.readable = FALSE],
    [PushRequest EXCEPT !.signature = "none"],
    [PushRequest EXCEPT !.signature = "forged"],
    [PushRequest EXCEPT !.signature = "forged", !.installation = FALSE],
    [PushRequest EXCEPT !.json = FALSE],
    [PushRequest EXCEPT !.installation = FALSE] }

\* signed requests with an installation id that start no workflow
UnhandledRequests ==
  { PushRequest,
    [PushRequest EXCEPT !.event = "pull_request", !.action = "closed"],
    [PushRequest EXCEPT !.event = "pull_request_review", !.action = "dismissed"],
    [PushRequest EXCEPT !.event = "issue_comment", !.action = "created"],
    [PushRequest EXCEPT !.event = "issue_comment", !.action = "deleted", !.isPR = TRUE] }

OpenedRequest == [PushRequest EXCEPT !.event = "pull_request", !.action = "opened"]

ReviewRequests ==
  { [PushRequest EXCEPT !.event = "pull_request_review", !.action = "submitted",
                        !.review = [user |-> u, state |-> st]] :
      u \in Users, st \in WebhookStates }

CommentRequests ==
  { [PushRequest EXCEPT !.event = "issue_comment", !.action = "created",
                        !.isPR = TRUE, !.body = b, !.commenter = c] :
      b \in Bodies, c \in Commenters }

\* payloads of the three workflows without the URL the workflow passes to
\* its first api call: pull_request.comments_url, pull_request.url,
\* issue.pull_request.url
MissingUrlRequests ==
  { [OpenedRequest EXCEPT !.urls = FALSE],
    [PushRequest EXCEPT !.event = "pull_request_review", !.action = "submitted",
                        !.review = [user |-> "alice", state |-> "approved"],
                        !.urls = FALSE],
    [PushRequest EXCEPT !.event = "issue_comment", !.action = "created",
                        !.isPR = TRUE, !.body = MergeCommand,
                        !.commenter = PrAuthor, !.urls = FALSE] }

Requests ==
  RejectedRequests \cup UnhandledRequests \cup {OpenedRequest}
    \cup ReviewRequests \cup CommentRequests \cup MissingUrlRequests

\* the pull request before api.getPR has returned
NoPR ==
  [mergeable |-> "null", mergeable_state |-> "none", hasRequested |-> FALSE,
   requested_reviewers |-> {}]

\* what api.getPR can return: mergeable is true, false or null
PullRequests ==
  [mergeable : {"true", "false", "null"},
   mergeable_state : {"clean", "blocked"},
   hasRequested : {TRUE},
   requested_reviewers : {{}}]
  \cup {[mergeable |-> "true", mergeable_state |-> "clean", hasRequested |-> TRUE,
         requested_reviewers |-> {"alice"}]}
  \cup {[NoPR EXCEPT !.mergeable = "true", !.mergeable_state = "clean"]}

NoVerdict ==
  [jumpOk |-> FALSE, anzaOk |-> FALSE, jumpBlockedBy |-> <<>>, anzaBlockedBy |-> <<>>]

NoComment ==
  [kind |-> "none", mention |-> "none", statusMsg |-> NoStatusMsg, rosters |-> <<>>]

(***************************************************************************)
(* api/bot.js: handler, up to the call of a workflow.                      *)
(***************************************************************************)
\* verifyWebhookSignature(signature, body): throws without a signature,
\* else whether the signature is the HMAC of the body
verifyWebhookSignature(r) ==
  CASE r.signature = "none" -> "throws"
    [] r.signature = "valid" -> "true"
    [] OTHER -> "false"

\* mutant of Gate: the signature is not looked at
Gate_Unverified(r) ==
  CASE r.method # "POST" -> "405"
    [] ~r.readable -> "400"
    [] ~r.json -> "crash"
    [] ~r.installation -> "400"
    [] OTHER -> "route"

\* the part of handler before the switch: the status it answers with, "crash"
\* when JSON.parse throws outside every try, or "route"
Gate(r) ==
  CASE r.method # "POST" -> "405"
    [] ~r.readable -> "400"
    [] verifyWebhookSignature(r) = "throws" -> "400"
    [] verifyWebhookSignature(r) = "false" -> "401"
    [] ~r.json -> "crash"
    [] ~r.installation -> "400"
    [] OTHER -> "route"

\* mutant of Route: every action of a pull request is taken for its opening
Route_AnyPullRequestAction(r) ==
  CASE r.event = "pull_request" -> "opened"
    [] r.event = "pull_request_review" /\ r.action = "submitted" -> "review"
    [] r.event = "issue_comment" /\ r.action = "created" /\ r.isPR -> "comment"
    [] OTHER -> "none"

\* the switch on the event: the workflow called, or "none"
Route(r) ==
  CASE r.event = "pull_request" /\ r.action = "opened" -> "opened"
    [] r.event = "pull_request_review" /\ r.action = "submitted" -> "review"
    [] r.event = "issue_comment" /\ r.action = "created" /\ r.isPR -> "comment"
    [] OTHER -> "none"

(***************************************************************************)
(* lib/handlers.js: handleIssueComment and handlePullRequestReview.        *)
(***************************************************************************)
IsSpace(c) == c = " "

\* String.prototype.trim
RECURSIVE TrimStart(_)
TrimStart(b) == IF b # <<>> /\ IsSpace(Head(b)) THEN TrimStart(Tail(b)) ELSE b

RECURSIVE TrimEnd(_)
TrimEnd(b) ==
  IF b # <<>> /\ IsSpace(b[Len(b)]) THEN TrimEnd(SubSeq(b, 1, Len(b) - 1)) ELSE b

trim(b) == TrimEnd(TrimStart(b))

\* String.prototype.startsWith
startsWith(b, prefix) ==
  Len(b) >= Len(prefix) /\ SubSeq(b, 1, Len(prefix)) = prefix

\* b.split(/\s+/)[0]: the characters before the first white space
RECURSIVE FirstToken(_)
FirstToken(b) ==
  IF b = <<>> \/ IsSpace(Head(b)) THEN <<>> ELSE <<Head(b)>> \o FirstToken(Tail(b))

\* mutant of IsCommand: a '/' anywhere in the body makes a command
IsCommand_AnySlash(r) == \E i \in DOMAIN r.body : r.body[i] = "/"

\* trimmedBody.startsWith('/')
IsCommand(r) == startsWith(trim(r.body), <<"/">>)

\* const command = trimmedBody.split(/\s+/)[0]
Command(r) == FirstToken(trim(r.body))

\* a comment body: what it says, whom it mentions, the status message in it
Comment(kind, mention, msg) ==
  [kind |-> kind, mention |-> mention, statusMsg |-> msg, rosters |-> <<>>]

\* mutant of ReviewDecision: every review is acknowledged
ReviewDecision_AnswersEveryReview(r, v) ==
  CASE r.review.state = "changes_requested" ->
         Comment("blocked", r.review.user, buildStatusMessage(v))
    [] r.review.state = "approved" /\ v.jumpOk /\ v.anzaOk ->
         Comment("ready", PrAuthor, buildStatusMessage(v))
    [] OTHER ->
         Comment("thanks", r.review.user, buildStatusMessage(v))

\* handlePullRequestReview after checkApprovalStatus: the comment to post,
\* or NoComment
ReviewDecision(r, v) ==
  CASE r.review.state = "changes_requested" ->
         Comment("blocked", r.review.user, buildStatusMessage(v))
    [] r.review.state = "approved" /\ v.jumpOk /\ v.anzaOk ->
         Comment("ready", PrAuthor, buildStatusMessage(v))
    [] r.review.state = "approved" ->
         Comment("thanks", r.review.user, buildStatusMessage(v))
    [] OTHER -> NoComment

\* mutant of CommentDecision: any commenter may merge
CommentDecision_AnyCommenter(r, p, v) ==
  CASE Command(r) # MergeCommand ->
         [op |-> "post", comment |-> Comment("invalidCommand", r.commenter, buildStatusMessage(v))]
    [] v.jumpOk /\ v.anzaOk /\ p.mergeable = "false" ->
         [op |-> "post", comment |-> Comment("mergeFailed", "none", NoStatusMsg)]
    [] v.jumpOk /\ v.anzaOk /\ p.mergeable_state = "blocked" ->
         [op |-> "post", comment |-> Comment("mergeFailed", "none", NoStatusMsg)]
    [] v.jumpOk /\ v.anzaOk ->
         [op |-> "merge", comment |-> NoComment]
    [] OTHER ->
         [op |-> "post", comment |-> Comment("status", PrAuthor, buildStatusMessage(v))]

\* mutant of CommentDecision: a token that starts with '/merge' is the merge command
CommentDecision_PrefixMerge(r, p, v) ==
  CASE ~startsWith(Command(r), MergeCommand) ->
         [op |-> "post", comment |-> Comment("invalidCommand", r.commenter, buildStatusMessage(v))]
    [] r.commenter # PrAuthor ->
         [op |-> "post", comment |-> Comment("notAuthor", r.commenter, buildStatusMessage(v))]
    [] v.jumpOk /\ v.anzaOk /\ p.mergeable = "false" ->
         [op |-> "post", comment |-> Comment("mergeFailed", "none", NoStatusMsg)]
    [] v.jumpOk /\ v.anzaOk /\ p.mergeable_state = "blocked" ->
         [op |-> "post", comment |-> Comment("mergeFailed", "none", NoStatusMsg)]
    [] v.jumpOk /\ v.anzaOk ->
         [op |-> "merge", comment |-> NoComment]
    [] OTHER ->
         [op |-> "post", comment |-> Comment("status", PrAuthor, buildStatusMessage(v))]

\* mutant of CommentDecision: another commenter than the author is
\* answered like the author, with the status only
CommentDecision_NoAuthorizationNotice(r, p, v) ==
  CASE Command(r) # MergeCommand ->
         [op |-> "post", comment |-> Comment("invalidCommand", r.commenter, buildStatusMessage(v))]
    [] r.commenter # PrAuthor ->
         [op |-> "post", comment |-> Comment("status", PrAuthor, buildStatusMessage(v))]
    [] v.jumpOk /\ v.anzaOk /\ p.mergeable = "false" ->
         [op |-> "post", comment |-> Comment("mergeFailed", "none", NoStatusMsg)]
    [] v.jumpOk /\ v.anzaOk /\ p.mergeable_state = "blocked" ->
         [op |-> "post", comment |-> Comment("mergeFailed", "none", NoStatusMsg)]
    [] v.jumpOk /\ v.anzaOk ->
         [op |-> "merge", comment |-> NoComment]
    [] OTHER ->
         [op |-> "post", comment |-> Comment("status", PrAuthor, buildStatusMessage(v))]

\* mutant of CommentDecision: the approval of one team is enough to merge
CommentDecision_OneTeamEnough(r, p, v) ==
  CASE Command(r) # MergeCommand ->
         [op |-> "post", comment |-> Comment("invalidCommand", r.commenter, buildStatusMessage(v))]
    [] r.commenter # PrAuthor ->
         [op |-> "post", comment |-> Comment("notAuthor", r.commenter, buildStatusMessage(v))]
    [] (v.jumpOk \/ v.anzaOk) /\ p.mergeable = "false" ->
         [op |-> "post", comment |-> Comment("mergeFailed", "none", NoStatusMsg)]
    [] (v.jumpOk \/ v.anzaOk) /\ p.mergeable_state = "blocked" ->
         [op |-> "post", comment |-> Comment("mergeFailed", "none", NoStatusMsg)]
    [] (v.jumpOk \/ v.anzaOk) ->
         [op |-> "merge", comment |-> NoComment]
    [] OTHER ->
         [op |-> "post", comment |-> Comment("status", PrAuthor, buildStatusMessage(v))]

\* mutant of CommentDecision: a pull request whose mergeable is not
\* true is not merged
CommentDecision_UnknownMergeableFails(r, p, v) ==
  CASE Command(r) # MergeCommand ->
         [op |-> "post", comment |-> Comment("invalidCommand", r.commenter, buildStatusMessage(v))]
    [] r.commenter # PrAuthor ->
         [op |-> "post", comment |-> Comment("notAuthor", r.commenter, buildStatusMessage(v))]
    [] v.jumpOk /\ v.anzaOk /\ p.mergeable # "true" ->
         [op |-> "post", comment |-> Comment("mergeFailed", "none", NoStatusMsg)]
    [] v.jumpOk /\ v.anzaOk /\ p.mergeable_state = "blocked" ->
         [op |-> "post", comment |-> Comment("mergeFailed", "none", NoStatusMsg)]
    [] v.jumpOk /\ v.anzaOk ->
         [op |-> "merge", comment |-> NoComment]
    [] OTHER ->
         [op |-> "post", comment |-> Comment("status", PrAuthor, buildStatusMessage(v))]

\* handleIssueComment after checkApprovalStatus, for a command: post a
\* comment, or call api.mergePR
CommentDecision(r, p, v) ==
  CASE Command(r) # MergeCommand ->
         [op |-> "post", comment |-> Comment("invalidCommand", r.commenter, buildStatusMessage(v))]
    [] r.commenter # PrAuthor ->
         [op |-> "post", comment |-> Comment("notAuthor", r.commenter, buildStatusMessage(v))]
    [] v.jumpOk /\ v.anzaOk /\ p.mergeable = "false" ->
         [op |-> "post", comment |-> Comment("mergeFailed", "none", NoStatusMsg)]
    [] v.jumpOk /\ v.anzaOk /\ p.mergeable_state = "blocked" ->
         [op |-> "post", comment |-> Comment("mergeFailed", "none", NoStatusMsg)]
    [] v.jumpOk /\ v.anzaOk ->
         [op |-> "merge", comment |-> NoComment]
    [] OTHER ->
         [op |-> "post", comment |-> Comment("status", PrAuthor, buildStatusMessage(v))]

(***************************************************************************)
(* State of the approval engine.                                           *)
(***************************************************************************)
VARIABLES
  reviews,             \* the reviews the loop has iterated over, in order
  requestedReviewers,  \* pr.requested_reviewers as a set of logins
  status,              \* the object login -> { approved, blocked }
  fresh                \* no verdict was computed in this process before

evars == <<reviews, requestedReviewers, status, fresh>>

(***************************************************************************)
(* State of GitHub and of the delivery being handled.                      *)
(***************************************************************************)
VARIABLES
  prReviews,   \* GitHub: the reviews submitted on the pull request, in order
  merged,      \* GitHub: the pull request is merged
  pc,          \* where handler is: idle, the call it awaits, done, crashed
  req,         \* the request being handled
  pr,          \* the pull request as api.getPR returned it
  fetched,     \* the list api.getReviews returned
  prStatus,    \* the verdict checkApprovalStatus returned (`status`)
  pending,     \* the comment api.postComment is posting
  calls,       \* the api methods called in this delivery, in order
  comments,    \* the comments posted in this delivery, in order
  response     \* the HTTP status sent, 0 while none is

hvars == <<prReviews, merged, pc, req, pr, fetched, prStatus, pending, calls,
           comments, response>>

(***************************************************************************)
(* State of a GitHubAPI object and the clock, and of deliveries that run   *)
(* at the same time.                                                       *)
(***************************************************************************)
VARIABLES
  token,         \* this._token: "null" or "cached"
  tokenExpires,  \* this._tokenExpires, in seconds
  clock,         \* the clock, in seconds: now of getToken
  tokenCall,     \* the last return of getToken: the clock, the expiry of
                 \* the token returned, whether it was minted in the call
  workers        \* the deliveries of the author's '/merge' in flight together

tvars == <<token, tokenExpires, clock, tokenCall>>

vars == <<reviews, requestedReviewers, status, fresh,
          prReviews, merged, pc, req, pr, fetched, prStatus, pending, calls,
          comments, response, token, tokenExpires, clock, tokenCall, workers>>

\* mutant of FreshStatus: the mapping outlives the computation
FreshStatus_Stale == status

\* const status = {} at the start of a later computation
FreshStatus == EmptyStatus

\* getToken has not returned yet
NoTokenCall == [at |-> 0, expires |-> 0, minted |-> FALSE, returned |-> FALSE]

\* a delivery of the author's '/merge' that has not arrived
IdleWorker == [pc |-> "idle", pr |-> NoPR, prStatus |-> NoVerdict, calls |-> <<>>]

\* the deliveries that can run at the same time
Deliveries == {1, 2}

\* constructor of GitHubAPI: no token; no delivery in flight
ApiIdle ==
  /\ token = "null"
  /\ tokenExpires = 0
  /\ clock = 0
  /\ tokenCall = NoTokenCall
  /\ workers = [d \in Deliveries |-> IdleWorker]

\* no delivery has arrived
HandlerIdle ==
  /\ ApiIdle
  /\ prReviews = <<>>
  /\ merged = FALSE
  /\ pc = "idle"
  /\ req = PushRequest
  /\ pr = NoPR
  /\ fetched = <<>>
  /\ prStatus = NoVerdict
  /\ pending = NoComment
  /\ calls = <<>>
  /\ comments = <<>>
  /\ response = 0

EngineInit ==
  /\ reviews = <<>>
  /\ requestedReviewers \in SUBSET Users
  /\ status = EmptyStatus
  /\ fresh = TRUE
  /\ HandlerIdle

\* the next element of the list reaches the loop body
ReplayStep(r) ==
  /\ Len(reviews) < MaxReviews
  /\ reviews' = Append(reviews, r)
  /\ status' = ApplyReview(status, r, requestedReviewers)
  /\ UNCHANGED <<requestedReviewers, fresh>>
  /\ UNCHANGED <<hvars, tvars, workers>>

\* a later call of checkApprovalStatus, for a pull request whose requested
\* reviewers are rr
NextComputation(rr) ==
  /\ reviews' = <<>>
  /\ requestedReviewers' = rr
  /\ status' = FreshStatus
  /\ fresh' = FALSE
  /\ UNCHANGED <<hvars, tvars, workers>>

ReplayNext == \E r \in ReviewSubmissions : ReplayStep(r)

\* one computation, on a review list of at most MaxReviews elements, with
\* the list iterated so far on record
SpecApproval == EngineInit /\ [][ReplayNext]_vars

\* the requested reviewers of the pull requests of later computations: none,
\* one member of both rosters, a member of each roster, and everybody
LaterRequested == {{}, {"bob"}, {"alice", "carol"}, Users}

RepeatedNext ==
  \/ \E r \in ReviewSubmissions : ReplayStep(r)
  \/ \E rr \in LaterRequested : reviews # <<>> /\ NextComputation(rr)

\* computation after computation in one process
SpecRepeated == EngineInit /\ [][RepeatedNext]_vars

\* the loop body without the record of the list: reviews is left empty and
\* not read, and the list may have any length
ReplayStepUnrecorded(r) ==
  /\ status' = ApplyReview(status, r, requestedReviewers)
  /\ UNCHANGED <<reviews, requestedReviewers, fresh>>
  /\ UNCHANGED <<hvars, tvars, workers>>

VerdictNext ==
  \/ \E r \in ReviewSubmissions : ReplayStepUnrecorded(r)
  \/ \E rr \in SUBSET Users : NextComputation(rr)

\* the engine on review lists of every length
SpecVerdict == EngineInit /\ [][VerdictNext]_vars

(***************************************************************************)
(* The deliveries: api/bot.js, lib/handlers.js, lib/github-api.js.         *)
(***************************************************************************)
\* per_page of api.getReviews
per_page == 100

\* api.getReviews: one request, so the first page of the list
getReviews(list) ==
  IF Len(list) <= per_page THEN list ELSE SubSeq(list, 1, per_page)

Init ==
  /\ reviews = <<>>
  /\ requestedReviewers = {}
  /\ status = EmptyStatus
  /\ fresh = TRUE
  /\ HandlerIdle

\* handler is not running
Idle == pc \in {"idle", "done", "crashed"}

\* handler starts on request r and runs to its first await, or to its end
Begin(r, nextPc, firstCalls, comment, code) ==
  /\ Idle
  /\ req' = r
  /\ pr' = NoPR
  /\ fetched' = <<>>
  /\ prStatus' = NoVerdict
  /\ pending' = comment
  /\ calls' = firstCalls
  /\ comments' = <<>>
  /\ response' = code
  /\ pc' = nextPc
  /\ UNCHANGED <<prReviews, merged>>
  /\ UNCHANGED <<evars, tvars, workers>>

\* handler answers request r before any await
Finish(r, code) ==
  /\ Idle
  /\ req' = r
  /\ pr' = NoPR
  /\ fetched' = <<>>
  /\ prStatus' = NoVerdict
  /\ pending' = NoComment
  /\ calls' = <<>>
  /\ comments' = <<>>
  /\ response' = code
  /\ pc' = "done"
  /\ UNCHANGED <<prReviews, merged>>
  /\ UNCHANGED <<evars, tvars, workers>>

\* handler ends with an HTTP status; the locals of the workflow are gone,
\* the request answered, the calls made and the comments posted remain
Respond(code) ==
  /\ pc' = "done"
  /\ response' = code
  /\ req' = req
  /\ pr' = NoPR
  /\ fetched' = <<>>
  /\ prStatus' = NoVerdict
  /\ pending' = NoComment

\* the boundary answers 405, 400 or 401
handler_rejects(r) ==
  /\ Gate(r) \in {"405", "400", "401"}
  /\ Finish(r, CASE Gate(r) = "405" -> 405 [] Gate(r) = "400" -> 400 [] OTHER -> 401)

\* JSON.parse(rawBody) throws outside the try: no response is sent
handler_crashes(r) ==
  /\ Gate(r) = "crash"
  /\ Begin(r, "crashed", <<>>, NoComment, 0)

\* no workflow is called
handler_acknowledges(r) ==
  /\ Gate(r) = "route"
  /\ Route(r) = "none"
  /\ Finish(r, 200)

\* mutant of handlePullRequestOpened: the welcome names the Jump roster only
handlePullRequestOpened_JumpOnly(r) ==
  /\ Gate(r) = "route"
  /\ Route(r) = "opened"
  /\ Begin(r, "postComment", <<"postComment">>,
           [Comment("welcome", PrAuthor, NoStatusMsg)
              EXCEPT !.rosters = <<JUMP_APPROVERS>>],
           0)

\* handlePullRequestOpened, to its api.postComment
handlePullRequestOpened(r) ==
  /\ Gate(r) = "route"
  /\ Route(r) = "opened"
  /\ Begin(r, "postComment", <<"postComment">>,
           [Comment("welcome", PrAuthor, NoStatusMsg)
              EXCEPT !.rosters = <<JUMP_APPROVERS, ANZA_APPROVERS>>],
           0)

\* mutant of handlePullRequestReview: the notice for a review with changes
\* requested is posted at once, before the pull request and its reviews are
\* fetched
handlePullRequestReview_PostsFirst(r) ==
  /\ Gate(r) = "route"
  /\ Route(r) = "review"
  /\ \E k \in DOMAIN prReviews : prReviews[k].user = r.review.user
  /\ IF r.review.state = "changes_requested"
       THEN Begin(r, "postComment", <<"postComment">>,
                  Comment("blocked", r.review.user, NoStatusMsg), 0)
       ELSE Begin(r, "getPR", <<"getPR">>, NoComment, 0)

\* handlePullRequestReview, to its api.getPR; the reviewer of the payload
\* has a review on the pull request
handlePullRequestReview(r) ==
  /\ Gate(r) = "route"
  /\ Route(r) = "review"
  /\ \E k \in DOMAIN prReviews : prReviews[k].user = r.review.user
  /\ Begin(r, "getPR", <<"getPR">>, NoComment, 0)

\* handleIssueComment on a body that is no command
handleIssueComment_returns(r) ==
  /\ Gate(r) = "route"
  /\ Route(r) = "comment"
  /\ ~IsCommand(r)
  /\ Finish(r, 200)

\* handleIssueComment on a command, to its api.getPR
handleIssueComment(r) ==
  /\ Gate(r) = "route"
  /\ Route(r) = "comment"
  /\ IsCommand(r)
  /\ Begin(r, "getPR", <<"getPR">>, NoComment, 0)

\* api.getPR, called with the URL of the payload, returns the pull request
\* p; checkApprovalStatus calls api.getReviews
getPR_returns(p) ==
  /\ pc = "getPR"
  /\ req.urls
  /\ pr' = p
  /\ pc' = "getReviews"
  /\ calls' = Append(calls, "getReviews")
  /\ UNCHANGED <<prReviews, merged, req, fetched, prStatus, pending, comments, response>>
  /\ UNCHANGED <<evars, tvars, workers>>

\* a call outside the try of handleIssueComment throws: handler answers 500
Throw500 ==
  /\ Respond(500)
  /\ UNCHANGED <<prReviews, merged, calls, comments>>
  /\ UNCHANGED <<evars, tvars, workers>>

getPR_throws == pc = "getPR" /\ Throw500

getReviews_throws == pc = "getReviews" /\ Throw500

\* api.getReviews returns; checkApprovalStatus computes the verdict and the
\* workflow runs to its next await, or to its end
getReviews_returns ==
  /\ pc = "getReviews"
  /\ LET list == getReviews(prReviews)
         v == checkApprovalStatus(pr, list)
         c == ReviewDecision(req, v)
         d == CommentDecision(req, pr, v)
     IN  CASE Route(req) = "review" /\ c = NoComment ->
                /\ Respond(200)
                /\ UNCHANGED calls
           [] Route(req) = "review" ->
                /\ fetched' = list
                /\ prStatus' = v
                /\ pc' = "postComment"
                /\ pending' = c
                /\ calls' = Append(calls, "postComment")
                /\ UNCHANGED <<req, pr, response>>
           [] d.op = "merge" ->
                /\ fetched' = list
                /\ prStatus' = v
                /\ pc' = "mergePR_getPR"
                /\ calls' = Append(calls, "mergePR")
                /\ UNCHANGED <<req, pr, pending, response>>
           [] OTHER ->
                /\ fetched' = list
                /\ prStatus' = v
                /\ pc' = "postComment"
                /\ pending' = d.comment
                /\ calls' = Append(calls, "postComment")
                /\ UNCHANGED <<req, pr, response>>
  /\ UNCHANGED <<prReviews, merged, comments>>
  /\ UNCHANGED <<evars, tvars, workers>>

\* api.mergePR: its own api.getPR returns
mergePR_getPR_returns ==
  /\ pc = "mergePR_getPR"
  /\ pc' = "mergePR_put"
  /\ UNCHANGED <<prReviews, merged, req, pr, fetched, prStatus, pending, calls,
                 comments, response>>
  /\ UNCHANGED <<evars, tvars, workers>>

\* the catch of handleIssueComment: post the failure notice
Catch ==
  /\ pc' = "postComment"
  /\ pending' = Comment("mergeFailed", "none", NoStatusMsg)
  /\ calls' = Append(calls, "postComment")

\* mutant of mergePR_throws: the error leaves the workflow and handler
\* answers 500
mergePR_throws_Uncaught ==
  /\ pc \in {"mergePR_getPR", "mergePR_put"}
  /\ Throw500

\* api.mergePR throws, in its api.getPR or in its PUT
mergePR_throws ==
  /\ pc \in {"mergePR_getPR", "mergePR_put"}
  /\ Catch
  /\ UNCHANGED <<prReviews, merged, req, pr, fetched, prStatus, comments, response>>
  /\ UNCHANGED <<evars, tvars, workers>>

\* mutant of mergePR_returns: the workflow returns without a notice
mergePR_returns_Silent ==
  /\ pc = "mergePR_put"
  /\ ~merged
  /\ merged' = TRUE
  /\ Respond(200)
  /\ UNCHANGED <<prReviews, calls, comments>>
  /\ UNCHANGED <<evars, tvars, workers>>

\* api.mergePR returns: GitHub has merged the pull request, which it does
\* once; the workflow posts the success notice
mergePR_returns ==
  /\ pc = "mergePR_put"
  /\ ~merged
  /\ merged' = TRUE
  /\ pc' = "postComment"
  /\ pending' = Comment("mergeSuccess", PrAuthor, NoStatusMsg)
  /\ calls' = Append(calls, "postComment")
  /\ UNCHANGED <<prReviews, req, pr, fetched, prStatus, comments, response>>
  /\ UNCHANGED <<evars, tvars, workers>>

\* mutant of postComment_returns: the refusal of another commenter than the
\* author is answered 403
postComment_returns_Forbidden ==
  /\ pc = "postComment"
  /\ Route(req) = "opened" => req.urls
  /\ comments' = Append(comments, pending)
  /\ Respond(IF pending.kind = "notAuthor" THEN 403 ELSE 200)
  /\ UNCHANGED <<prReviews, merged, calls>>
  /\ UNCHANGED <<evars, tvars, workers>>

\* api.postComment, called by handlePullRequestOpened with the URL of the
\* payload, returns: the workflow returns and handler answers 200
postComment_returns ==
  /\ pc = "postComment"
  /\ Route(req) = "opened" => req.urls
  /\ comments' = Append(comments, pending)
  /\ Respond(200)
  /\ UNCHANGED <<prReviews, merged, calls>>
  /\ UNCHANGED <<evars, tvars, workers>>

\* api.postComment throws: inside the try (the success notice) the catch
\* runs, elsewhere handler answers 500
postComment_throws ==
  /\ pc = "postComment"
  /\ IF pending.kind = "mergeSuccess"
       THEN Catch /\ UNCHANGED <<req, pr, fetched, prStatus, response>>
       ELSE Respond(500) /\ UNCHANGED calls
  /\ UNCHANGED <<prReviews, merged, comments>>
  /\ UNCHANGED <<evars, tvars, workers>>

\* GitHub: a reviewer submits a review on the pull request
SubmitReview(u, st) ==
  /\ Len(prReviews) < MaxPrReviews
  /\ prReviews' = Append(prReviews, [user |-> u, state |-> st])
  /\ UNCHANGED <<merged, pc, req, pr, fetched, prStatus, pending, calls,
                 comments, response>>
  /\ UNCHANGED <<evars, tvars, workers>>

Next ==
  \/ \E r \in Requests : handler_rejects(r)
  \/ \E r \in Requests : handler_crashes(r)
  \/ \E r \in Requests : handler_acknowledges(r)
  \/ \E r \in Requests : handlePullRequestOpened(r)
  \/ \E r \in Requests : handlePullRequestReview(r)
  \/ \E r \in Requests : handleIssueComment_returns(r)
  \/ \E r \in Requests : handleIssueComment(r)
  \/ \E p \in PullRequests : getPR_returns(p)
  \/ getPR_throws
  \/ getReviews_returns
  \/ getReviews_throws
  \/ mergePR_getPR_returns
  \/ mergePR_throws
  \/ mergePR_returns
  \/ postComment_returns
  \/ postComment_throws
  \/ \E u \in Users, st \in PrReviewStates : SubmitReview(u, st)

\* one delivery at a time, while reviewers submit reviews
Spec == Init /\ [][Next]_vars

\* the remote call a delivery awaits returns or throws
CallEnds ==
  \/ \E p \in PullRequests : getPR_returns(p)
  \/ getPR_throws
  \/ getReviews_returns
  \/ getReviews_throws
  \/ mergePR_getPR_returns
  \/ mergePR_throws
  \/ mergePR_returns
  \/ postComment_returns
  \/ postComment_throws

\* the deliveries when every remote call returns or fails in the end; no
\* further delivery need arrive
SpecLive == Init /\ [][Next]_vars /\ WF_vars(CallEnds)

(***************************************************************************)
(* lib/github-api.js: getToken, of one GitHubAPI object.                   *)
(***************************************************************************)
\* the seconds of now - 60
RefreshMargin == 60

\* the seconds between the minting of a token and its expires_at
TokenLifetimes == {90, 120}

\* the seconds that pass between two calls
ClockSteps == {30, 60}

\* !this._token || this._tokenExpires < (now - 60)
NeedsRefresh == token = "null" \/ tokenExpires < clock - RefreshMargin

\* getToken mints a token that lives for life seconds, caches and returns it
getToken_mints(life) ==
  /\ NeedsRefresh
  /\ token' = "cached"
  /\ tokenExpires' = clock + life
  /\ tokenCall' = [at |-> clock, expires |-> clock + life, minted |-> TRUE,
                   returned |-> TRUE]
  /\ UNCHANGED clock
  /\ UNCHANGED <<evars, hvars, workers>>

\* the request for a token throws: getToken throws and caches nothing
getToken_throws ==
  /\ NeedsRefresh
  /\ tokenCall' = [at |-> clock, expires |-> 0, minted |-> FALSE, returned |-> FALSE]
  /\ UNCHANGED <<token, tokenExpires, clock>>
  /\ UNCHANGED <<evars, hvars, workers>>

\* getToken returns the cached token
getToken_cached ==
  /\ ~NeedsRefresh
  /\ tokenCall' = [at |-> clock, expires |-> tokenExpires, minted |-> FALSE,
                   returned |-> TRUE]
  /\ UNCHANGED <<token, tokenExpires, clock>>
  /\ UNCHANGED <<evars, hvars, workers>>

\* time passes
Tick(d) ==
  /\ clock + d <= MaxClock
  /\ clock' = clock + d
  /\ UNCHANGED <<token, tokenExpires, tokenCall>>
  /\ UNCHANGED <<evars, hvars, workers>>

TokenNext ==
  \/ \E life \in TokenLifetimes : getToken_mints(life)
  \/ getToken_throws
  \/ getToken_cached
  \/ \E d \in ClockSteps : Tick(d)

\* the calls of getToken on one GitHubAPI object, as time passes
SpecToken == Init /\ [][TokenNext]_vars

\* C27: getToken mints a token when none is cached or when the cached one
\* is within 60 seconds of its expiry, or past it: a token it returns
\* without minting it expires 60 seconds or more after the call.
C27_NoTokenNearExpiryReturned ==
  (tokenCall.returned /\ ~tokenCall.minted) =>
    tokenCall.expires - tokenCall.at >= RefreshMargin

(***************************************************************************)
(* Deliveries of the author's '/merge' that run at the same time: each is  *)
(* its own call of handler, with its own GitHubAPI object and locals.      *)
(***************************************************************************)
\* the author's '/merge'
MergeRequest ==
  [PushRequest EXCEPT !.event = "issue_comment", !.action = "created",
                      !.isPR = TRUE, !.body = MergeCommand, !.commenter = PrAuthor]

\* what api.getPR returns to these deliveries
ConcurrentPullRequests ==
  {p \in PullRequests :
     p.mergeable = "true" /\ p.hasRequested /\ p.requested_reviewers = {}}

\* the worker d becomes w; the delivery of Spec and the rest stay as they are
SetWorker(d, w) ==
  /\ workers' = [workers EXCEPT ![d] = w]
  /\ UNCHANGED <<pc, req, pr, fetched, prStatus, pending, calls, comments, response>>
  /\ UNCHANGED <<evars, tvars>>

\* the worker returns, answered or not: its locals are gone
WorkerDone(w) == [w EXCEPT !.pc = "done", !.pr = NoPR, !.prStatus = NoVerdict]

\* handler and handleIssueComment, to api.getPR
worker_handleIssueComment(d) ==
  /\ workers[d].pc = "idle"
  /\ SetWorker(d, [workers[d] EXCEPT !.pc = "getPR", !.calls = <<"getPR">>])
  /\ UNCHANGED <<prReviews, merged>>

\* api.getPR returns p
worker_getPR_returns(d, p) ==
  /\ workers[d].pc = "getPR"
  /\ SetWorker(d, [workers[d] EXCEPT !.pc = "getReviews", !.pr = p,
                                      !.calls = Append(@, "getReviews")])
  /\ UNCHANGED <<prReviews, merged>>

\* mutant of worker_getReviews_returns: a delivery does not merge while
\* another delivery has called api.mergePR
worker_getReviews_returns_Locked(d) ==
  /\ workers[d].pc = "getReviews"
  /\ LET w == workers[d]
         v == checkApprovalStatus(w.pr, getReviews(prReviews))
         free == \A e \in Deliveries \ {d} :
                   \A k \in DOMAIN workers[e].calls : workers[e].calls[k] # "mergePR"
         op == IF free THEN CommentDecision(MergeRequest, w.pr, v).op ELSE "post"
     IN  SetWorker(d, [w EXCEPT !.prStatus = v,
                                !.pc = IF op = "merge" THEN "mergePR_getPR"
                                                       ELSE "postComment",
                                !.calls = Append(@, IF op = "merge" THEN "mergePR"
                                                                    ELSE "postComment")])
  /\ UNCHANGED <<prReviews, merged>>

\* api.getReviews returns, checkApprovalStatus computes the verdict and
\* handleIssueComment calls api.mergePR or api.postComment
worker_getReviews_returns(d) ==
  /\ workers[d].pc = "getReviews"
  /\ LET w == workers[d]
         v == checkApprovalStatus(w.pr, getReviews(prReviews))
         op == CommentDecision(MergeRequest, w.pr, v).op
     IN  SetWorker(d, [w EXCEPT !.prStatus = v,
                                !.pc = IF op = "merge" THEN "mergePR_getPR"
                                                       ELSE "postComment",
                                !.calls = Append(@, IF op = "merge" THEN "mergePR"
                                                                    ELSE "postComment")])
  /\ UNCHANGED <<prReviews, merged>>

\* api.mergePR: its api.getPR returns
worker_mergePR_getPR_returns(d) ==
  /\ workers[d].pc = "mergePR_getPR"
  /\ SetWorker(d, [workers[d] EXCEPT !.pc = "mergePR_put"])
  /\ UNCHANGED <<prReviews, merged>>

\* api.mergePR returns, GitHub has merged the pull request, or throws, as
\* it does when the pull request is merged already; either way
\* handleIssueComment calls api.postComment
worker_mergePR_ends(d, ok) ==
  /\ workers[d].pc \in {"mergePR_getPR", "mergePR_put"}
  /\ ok => workers[d].pc = "mergePR_put" /\ ~merged
  /\ merged' = (merged \/ ok)
  /\ SetWorker(d, [workers[d] EXCEPT !.pc = "postComment",
                                      !.calls = Append(@, "postComment")])
  /\ UNCHANGED prReviews

\* api.postComment returns or throws, or api.getPR or api.getReviews
\* throws: handler answers
worker_ends(d) ==
  /\ workers[d].pc \in {"getPR", "getReviews", "postComment"}
  /\ SetWorker(d, WorkerDone(workers[d]))
  /\ UNCHANGED <<prReviews, merged>>

ConcurrentNext ==
  \/ \E d \in Deliveries : worker_handleIssueComment(d)
  \/ \E d \in Deliveries, p \in ConcurrentPullRequests : worker_getPR_returns(d, p)
  \/ \E d \in Deliveries : worker_getReviews_returns(d)
  \/ \E d \in Deliveries : worker_mergePR_getPR_returns(d)
  \/ \E d \in Deliveries, ok \in BOOLEAN : worker_mergePR_ends(d, ok)
  \/ \E d \in Deliveries : worker_ends(d)
  \/ \E u \in Users, st \in PrReviewStates : SubmitReview(u, st)

\* two deliveries of the author's '/merge' for one pull request, while
\* reviewers submit reviews
SpecConcurrent == Init /\ [][ConcurrentNext]_vars

\* the delivery has called api.mergePR
WorkerMergeCalled(d) ==
  \E k \in DOMAIN workers[d].calls : workers[d].calls[k] = "mergePR"

\* C29: deliveries for one pull request do not exclude each other: a
\* '/merge' of the author that has fetched a satisfied verdict on a
\* mergeable pull request has called api.mergePR, whatever another delivery
\* has done, so that two merge calls for one pull request happen.
C29_NoMutualExclusion ==
  \A d \in Deliveries :
    LET w == workers[d]
    IN  (/\ w.pc \in {"mergePR_getPR", "mergePR_put", "postComment"}
         /\ w.prStatus.jumpOk /\ w.prStatus.anzaOk
         /\ w.pr.mergeable # "false"
         /\ w.pr.mergeable_state # "blocked") =>
          /\ w.calls = <<"getPR", "getReviews", "mergePR">>
               \/ w.calls = <<"getPR", "getReviews", "mergePR", "postComment">>
          /\ w.pc = "postComment" <=> Len(w.calls) = 4

\* C29 witness: both deliveries have fetched a satisfied verdict and both
\* are in api.mergePR, about to send the merge request
C29_Witness ==
  /\ \A d \in Deliveries :
       /\ WorkerMergeCalled(d)
       /\ workers[d].pc = "mergePR_put"
       /\ workers[d].prStatus.jumpOk /\ workers[d].prStatus.anzaOk
  /\ ~merged

(***************************************************************************)
(* Deliveries for a pull request with about a page of reviews.             *)
(***************************************************************************)
\* n times the review r
Repeated(n, r) == [i \in 1..n |-> r]

\* what a long history ends with: nothing more, or one more review
Tails ==
  {<<>>} \cup {<<r>> : r \in [user : Users, state : PrReviewStates]}

\* histories of one review less than a page, of a page, and of one review
\* more: bob, who is on both rosters, has approved over and over, and then
\* comes the tail
LongHistories ==
  {Repeated(n, [user |-> "bob", state |-> "APPROVED"]) \o t :
     n \in {per_page - 1, per_page}, t \in Tails}

PagesInit ==
  /\ reviews = <<>>
  /\ requestedReviewers = {}
  /\ status = EmptyStatus
  /\ fresh = TRUE
  /\ ApiIdle
  /\ prReviews \in LongHistories
  /\ merged = FALSE
  /\ pc = "idle"
  /\ req = PushRequest
  /\ pr = NoPR
  /\ fetched = <<>>
  /\ prStatus = NoVerdict
  /\ pending = NoComment
  /\ calls = <<>>
  /\ comments = <<>>
  /\ response = 0

\* the deliveries of Spec; no review is submitted any more
PagesNext ==
  \/ \E r \in Requests : handler_rejects(r)
  \/ \E r \in Requests : handler_crashes(r)
  \/ \E r \in Requests : handler_acknowledges(r)
  \/ \E r \in Requests : handlePullRequestOpened(r)
  \/ \E r \in Requests : handlePullRequestReview(r)
  \/ \E r \in Requests : handleIssueComment_returns(r)
  \/ \E r \in Requests : handleIssueComment(r)
  \/ \E p \in PullRequests : getPR_returns(p)
  \/ getPR_throws
  \/ getReviews_returns
  \/ getReviews_throws
  \/ mergePR_getPR_returns
  \/ mergePR_throws
  \/ mergePR_returns
  \/ postComment_returns
  \/ postComment_throws

SpecPages == PagesInit /\ [][PagesNext]_vars

\* C30: the verdict of a delivery is computed over every review of the pull
\* request: api.getReviews returns the whole history, also one of more than
\* 100 reviews, so that a review beyond the first page counts.
C30_VerdictOverWholeHistory ==
  (pc \in {"postComment", "mergePR_getPR", "mergePR_put"} /\ Route(req) # "opened") =>
    /\ fetched = prReviews
    /\ prStatus = checkApprovalStatus(pr, prReviews)

(***************************************************************************)
(* Claims about the workflows, checked under Spec.                         *)
(***************************************************************************)
\* api.mergePR was called in the delivery
MergeCalled == \E k \in DOMAIN calls : calls[k] = "mergePR"

\* C1: api.mergePR is called only in a delivery of a comment whose leading
\* token is exactly '/merge', by the author of the pull request, in which the
\* verdict computed from the pull request and the reviews fetched in that
\* delivery has both teams OK, pr.mergeable is not false and
\* pr.mergeable_state is not 'blocked'; no other step calls it.
C1_MergeOnlyWhenAllChecksPass ==
  [][(MergeCalled' /\ ~MergeCalled) =>
       /\ pc = "getReviews"
       /\ req' = req /\ pr' = pr
       /\ Route(req) = "comment"
       /\ Command(req) = MergeCommand
       /\ req.commenter = PrAuthor
       /\ fetched' = getReviews(prReviews)
       /\ prStatus' = checkApprovalStatus(pr, fetched')
       /\ prStatus'.jumpOk /\ prStatus'.anzaOk
       /\ pr.mergeable # "false"
       /\ pr.mergeable_state # "blocked"]_vars

\* C1 witness: the author's " /merge x" has merged a pull request whose
\* mergeable is null
C1_Witness ==
  /\ MergeCalled
  /\ merged
  /\ pc = "postComment"
  /\ req.commenter = PrAuthor
  /\ req.body # MergeCommand
  /\ pr.mergeable = "null"
  /\ prStatus.jumpOk /\ prStatus.anzaOk
  /\ pending = Comment("mergeSuccess", PrAuthor, NoStatusMsg)

\* the delivery is of a comment created on a pull request
CommentDelivery ==
  /\ pc # "idle"
  /\ Gate(req) = "route"
  /\ req.event = "issue_comment" /\ req.action = "created" /\ req.isPR

\* the first character of the body that is not white space is a '/'
SlashFirst ==
  \E i \in DOMAIN req.body :
    /\ req.body[i] = "/"
    /\ \A k \in 1..(i - 1) : req.body[k] = " "

\* how many times the delivery has called method m of the api
CallsOf(m) == Cardinality({k \in DOMAIN calls : calls[k] = m})

\* C13: a created comment whose trimmed body does not start with '/' has no
\* side effect: no api call (no fetch, no merge, no comment) is made, whoever
\* the commenter and whatever the reviews, and the delivery is answered 200.
C13_NonCommandHasNoEffect ==
  (CommentDelivery /\ ~SlashFirst) =>
    /\ pc = "done"
    /\ response = 200
    /\ calls = <<>>
    /\ comments = <<>>
    /\ pending = NoComment

\* C13 witness: the author's "h /merge" is ignored on a pull request that
\* both teams have approved
C13_Witness ==
  /\ CommentDelivery
  /\ ~SlashFirst
  /\ \E i \in DOMAIN req.body : req.body[i] = "/"
  /\ req.commenter = PrAuthor
  /\ LET v == checkApprovalStatus(NoPR, prReviews) IN v.jumpOk /\ v.anzaOk
  /\ pc = "done"
  /\ ~merged

\* the status message of the verdict on the pull request and the reviews the
\* delivery has fetched
FetchedStatusMsg == buildStatusMessage(checkApprovalStatus(pr, fetched))

\* the delivery makes no merge call and answers with one comment of the kind,
\* mentioning the login, with the status message of the fetched reviews: one
\* api.postComment at most, and the comment posted when the answer is 200
OneReply(kind, mention) ==
  /\ CallsOf("mergePR") = 0
  /\ CallsOf("postComment") <= 1
  /\ pc \in {"getPR", "getReviews", "postComment", "done"}
  /\ pc \in {"getPR", "getReviews"} => comments = <<>> /\ CallsOf("postComment") = 0
  /\ pc = "postComment" =>
       /\ comments = <<>>
       /\ CallsOf("postComment") = 1
       /\ pending = Comment(kind, mention, FetchedStatusMsg)
  /\ (pc = "done" /\ response = 200) =>
       /\ Len(comments) = 1
       /\ CallsOf("postComment") = 1
       /\ comments[1].kind = kind
       /\ comments[1].mention = mention
  /\ (pc = "done" /\ response # 200) => comments = <<>> /\ response = 500

\* C14: a command whose leading token is not exactly '/merge' is answered
\* with exactly one comment, the unknown command notice with the status, and
\* never with a merge call, for the author and for any other commenter and
\* for any verdict.
C14_UnknownCommandGetsOneReply ==
  (CommentDelivery /\ SlashFirst /\ Command(req) # MergeCommand) =>
    OneReply("invalidCommand", req.commenter)

\* C14 witness: the author's "/merged" on a pull request that is ready to
\* merge has been answered with the unknown command notice
C14_Witness ==
  /\ CommentDelivery /\ SlashFirst
  /\ startsWith(Command(req), MergeCommand) /\ Command(req) # MergeCommand
  /\ req.commenter = PrAuthor
  /\ pc = "done" /\ response = 200
  /\ Len(comments) = 1
  /\ comments[1].kind = "invalidCommand"
  /\ comments[1].statusMsg = ReadyMessage
  /\ ~merged

\* C15: a '/merge' of another user than the author of the pull request is
\* answered with exactly one comment, the authorization failure with the
\* status, and no merge call, also when both teams are OK and the pull
\* request is mergeable.
C15_NonAuthorMergeGetsOneReply ==
  (CommentDelivery /\ Command(req) = MergeCommand /\ req.commenter # PrAuthor) =>
    OneReply("notAuthor", req.commenter)

\* C15 witness: the '/merge' of alice on a mergeable pull request that both
\* teams approved is about to be answered with the authorization failure
C15_Witness ==
  /\ CommentDelivery /\ Command(req) = MergeCommand
  /\ req.commenter = "alice"
  /\ pc = "postComment"
  /\ prStatus.jumpOk /\ prStatus.anzaOk
  /\ pr.mergeable = "true" /\ pr.mergeable_state = "clean"
  /\ pending.kind = "notAuthor"
  /\ ~merged

\* the delivery is of a '/merge' of the author of the pull request
AuthorMerge ==
  CommentDelivery /\ Command(req) = MergeCommand /\ req.commenter = PrAuthor

\* the verdict of the delivery has both teams OK
BothTeamsOk == prStatus.jumpOk /\ prStatus.anzaOk

\* C16: a '/merge' of the author while a team is not OK is answered with
\* exactly one comment, addressed to the author, with the status, and no
\* merge call is made.
C16_UnapprovedMergeGetsStatus ==
  AuthorMerge =>
    /\ (pc \notin {"idle", "done"} /\ ~BothTeamsOk) =>
         /\ CallsOf("mergePR") = 0
         /\ pc \in {"getPR", "getReviews", "postComment"}
    /\ (pc = "postComment" /\ ~BothTeamsOk) =>
         /\ prStatus = checkApprovalStatus(pr, fetched)
         /\ pending = Comment("status", PrAuthor, FetchedStatusMsg)
         /\ ~pending.statusMsg.ready
         /\ comments = <<>>
         /\ CallsOf("postComment") = 1
    /\ (pc = "done" /\ \E k \in DOMAIN comments : comments[k].kind = "status") =>
         /\ Len(comments) = 1
         /\ comments[1].mention = PrAuthor
         /\ ~comments[1].statusMsg.ready
         /\ CallsOf("mergePR") = 0
         /\ CallsOf("postComment") = 1
         /\ response = 200

\* C16 witness: the author's '/merge' on a mergeable pull request that only
\* Jump approved has been answered with the status
C16_Witness ==
  /\ AuthorMerge
  /\ pc = "done" /\ response = 200
  /\ Len(comments) = 1
  /\ comments[1].kind = "status"
  /\ TeamsIn(comments[1].statusMsg.missing) = {"Anza"}
  /\ ~merged

\* the calls of a delivery that has called api.mergePR
UpToMerge == <<"getPR", "getReviews", "mergePR">>

SuccessNotice == Comment("mergeSuccess", PrAuthor, NoStatusMsg)

FailureNotice == Comment("mergeFailed", "none", NoStatusMsg)

\* C17: a '/merge' of the author with both teams OK, mergeable true and
\* mergeable_state not 'blocked' makes exactly one merge call, before any
\* comment; when the remote calls succeed exactly one comment follows it, the
\* success notice, and no other comment is posted.
C17_MergeThenSuccessNotice ==
  AuthorMerge =>
    /\ (/\ pc \in {"mergePR_getPR", "mergePR_put", "postComment"}
        /\ BothTeamsOk
        /\ pr.mergeable = "true"
        /\ pr.mergeable_state # "blocked") =>
         /\ SubSeq(calls, 1, 3) = UpToMerge
         /\ CallsOf("mergePR") = 1
         /\ comments = <<>>
    /\ pc \in {"mergePR_getPR", "mergePR_put"} => calls = UpToMerge
    /\ (pc = "postComment" /\ pending = SuccessNotice) =>
         /\ calls = UpToMerge \o <<"postComment">>
         /\ merged
    /\ (pc = "done" /\ CallsOf("mergePR") = 1 /\ response = 200) =>
         Len(comments) = 1
    /\ (pc = "done" /\ \E k \in DOMAIN comments : comments[k] = SuccessNotice) =>
         /\ comments = <<SuccessNotice>>
         /\ calls = UpToMerge \o <<"postComment">>
         /\ merged
         /\ response = 200

\* C17 witness: the author's "/merge" has merged the pull request and the
\* success notice is posted
C17_Witness ==
  /\ AuthorMerge
  /\ req.body = MergeCommand
  /\ pc = "done" /\ response = 200
  /\ merged
  /\ calls = UpToMerge \o <<"postComment">>
  /\ comments = <<SuccessNotice>>

\* C18: when the author's '/merge' passes the verdict and pr.mergeable is
\* false or pr.mergeable_state is 'blocked', api.mergePR is not called and
\* exactly one comment, the failure notice, is posted; when pr.mergeable is
\* null and the state is not 'blocked', api.mergePR is called.
C18_UnmergeableFailsBeforeMerge ==
  AuthorMerge =>
    /\ BothTeamsOk =>
         /\ pc \in {"mergePR_getPR", "mergePR_put", "postComment"}
         /\ prStatus = checkApprovalStatus(pr, fetched)
         /\ IF pr.mergeable = "false" \/ pr.mergeable_state = "blocked"
              THEN /\ pc = "postComment"
                   /\ calls = <<"getPR", "getReviews", "postComment">>
                   /\ pending = FailureNotice
                   /\ comments = <<>>
              ELSE /\ SubSeq(calls, 1, 3) = UpToMerge
                   /\ CallsOf("mergePR") = 1
    /\ (/\ pc = "done"
        /\ CallsOf("mergePR") = 0
        /\ \E k \in DOMAIN comments : comments[k] = FailureNotice) =>
         /\ comments = <<FailureNotice>>
         /\ calls = <<"getPR", "getReviews", "postComment">>
         /\ response = 200

\* C18 witness: the author's '/merge' on an approved pull request that is
\* not mergeable has ended with the failure notice and without a merge call
C18_Witness ==
  /\ AuthorMerge
  /\ pc = "done" /\ response = 200
  /\ CallsOf("mergePR") = 0
  /\ comments = <<FailureNotice>>
  /\ ~merged

\* a step in which api.mergePR throws
MergeFails ==
  /\ pc \in {"mergePR_getPR", "mergePR_put"}
  /\ pc' \notin {"mergePR_getPR", "mergePR_put"}
  /\ merged' = merged

\* C19: when api.mergePR fails the workflow catches the failure and goes on
\* to post one failure notice, without another merge call (a delivery
\* makes one merge call at most); once the notice is posted the delivery is
\* answered 200, not 500.
C19_MergeFailureIsCaught ==
  [][/\ CallsOf("mergePR")' <= 1
     /\ MergeFails =>
          /\ pc' = "postComment"
          /\ pending' = FailureNotice
          /\ calls' = UpToMerge \o <<"postComment">>
          /\ comments' = <<>>
          /\ response' = response
     /\ (pc = "postComment" /\ pending = FailureNotice /\ comments' # comments) =>
          /\ pc' = "done"
          /\ response' = 200
          /\ comments' = <<FailureNotice>>
          /\ CallsOf("mergePR")' = CallsOf("mergePR")]_vars

\* C19 witness: the merge call of the author's '/merge' has failed, the
\* failure notice is posted and the delivery is answered 200
C19_Witness ==
  /\ AuthorMerge
  /\ pc = "done" /\ response = 200
  /\ ~merged
  /\ calls = UpToMerge \o <<"postComment">>
  /\ comments = <<FailureNotice>>

\* the delivery is of a submitted review
ReviewDelivery ==
  /\ pc # "idle"
  /\ Gate(req) = "route"
  /\ req.event = "pull_request_review" /\ req.action = "submitted"

\* the reviews fetched are reviews of the pull request, in their order
FetchedIsFresh ==
  /\ Len(fetched) <= Len(prReviews)
  /\ fetched = SubSeq(prReviews, 1, Len(fetched))

\* C20: handlePullRequestReview posts exactly one comment when the review
\* of the payload is changes_requested (the block notice naming the reviewer,
\* with the status) or approved (the ready notice if both teams are OK in the
\* verdict computed in the delivery, else the acknowledgement with the
\* status); for any other state of the review it posts no comment; it never
\* calls api.mergePR.
C20_ReviewWorkflowComments ==
  ReviewDelivery =>
    LET st == req.review.state
        who == req.review.user
        v == checkApprovalStatus(pr, fetched)
    IN  /\ CallsOf("mergePR") = 0
        /\ pc \notin {"mergePR_getPR", "mergePR_put"}
        /\ FetchedIsFresh
        /\ st = "changes_requested" => OneReply("blocked", who)
        /\ (st = "approved" /\ pc = "postComment") =>
             /\ prStatus = v
             /\ IF v.jumpOk /\ v.anzaOk
                  THEN OneReply("ready", PrAuthor) /\ pending.statusMsg = ReadyMessage
                  ELSE OneReply("thanks", who) /\ ~pending.statusMsg.ready
        /\ (st = "approved" /\ pc # "postComment") =>
             \/ OneReply("ready", PrAuthor) /\ (comments # <<>> => comments[1].statusMsg = ReadyMessage)
             \/ OneReply("thanks", who) /\ (comments # <<>> => ~comments[1].statusMsg.ready)
        /\ st \notin {"changes_requested", "approved"} =>
             /\ CallsOf("postComment") = 0
             /\ comments = <<>>
             /\ pending = NoComment
             /\ pc \in {"getPR", "getReviews", "done"}

\* C20 witness: bob, who is on both rosters, has requested changes and the
\* block notice naming bob is posted, with both teams in its blocked-by clause
C20_Witness ==
  /\ ReviewDelivery
  /\ req.review = [user |-> "bob", state |-> "changes_requested"]
  /\ pc = "done" /\ response = 200
  /\ Len(comments) = 1
  /\ comments[1].kind = "blocked"
  /\ comments[1].mention = "bob"
  /\ TeamsIn(comments[1].statusMsg.blocked) = {"Jump", "Anza"}

\* the welcome comment of handlePullRequestOpened
Welcome ==
  [Comment("welcome", PrAuthor, NoStatusMsg)
     EXCEPT !.rosters = <<JUMP_APPROVERS, ANZA_APPROVERS>>]

\* the delivery is of an opened pull request
OpenedDelivery ==
  /\ pc # "idle"
  /\ Gate(req) = "route"
  /\ req.event = "pull_request" /\ req.action = "opened"

\* C21: handlePullRequestOpened has exactly one side effect, one welcome
\* comment that names both rosters in full; it fetches no pull request and no
\* reviews, computes no verdict and makes no merge call.
C21_OpenedPostsWelcomeOnly ==
  OpenedDelivery =>
    /\ calls = <<"postComment">>
    /\ pc \in {"postComment", "done"}
    /\ pr = NoPR /\ fetched = <<>> /\ prStatus = NoVerdict
    /\ pc = "postComment" => pending = Welcome /\ comments = <<>>
    /\ (pc = "done" /\ response = 200) => comments = <<Welcome>>
    /\ (pc = "done" /\ response # 200) => comments = <<>> /\ response = 500

\* C21 witness: the welcome is posted on a pull request that has reviews
C21_Witness ==
  /\ OpenedDelivery
  /\ pc = "done" /\ response = 200
  /\ comments = <<Welcome>>
  /\ Welcome.rosters = <<JUMP_APPROVERS, ANZA_APPROVERS>>
  /\ prReviews # <<>>

\* the delivery has ended without a workflow, a call of the api or a comment
NothingDone ==
  /\ pc = "done"
  /\ calls = <<>>
  /\ comments = <<>>
  /\ pending = NoComment
  /\ pr = NoPR /\ fetched = <<>> /\ prStatus = NoVerdict

\* C22: a request that is not a POST is answered 405, a POST whose
\* signature is not the HMAC of the raw body 401, a POST with a verified
\* signature and a payload without installation id 400; in each case no
\* workflow runs and no call of the api is made.
C22_BoundaryRejections ==
  pc # "idle" =>
    /\ req.method # "POST" => NothingDone /\ response = 405
    /\ (req.method = "POST" /\ req.readable /\ req.signature = "forged") =>
         NothingDone /\ response = 401
    /\ (/\ req.method = "POST" /\ req.readable /\ req.signature = "valid"
        /\ req.json /\ ~req.installation) =>
         NothingDone /\ response = 400

\* C22 witness: a POST with a forged signature, and no installation id, is
\* answered 401
C22_Witness ==
  /\ pc = "done"
  /\ req.method = "POST" /\ req.signature = "forged" /\ ~req.installation
  /\ response = 401
  /\ calls = <<>>

\* the event and action of the delivery are those of a workflow
HandledPair ==
  \/ req.event = "pull_request" /\ req.action = "opened"
  \/ req.event = "pull_request_review" /\ req.action = "submitted"
  \/ req.event = "issue_comment" /\ req.action = "created" /\ req.isPR

\* C23: a delivery with a verified signature and an installation id whose
\* event and action are not pull_request opened, pull_request_review
\* submitted or issue_comment created on a pull request is answered 200 and
\* has no side effect and no call of the api.
C23_UnhandledEventsAcknowledged ==
  (pc # "idle" /\ Gate(req) = "route" /\ ~HandledPair) =>
    NothingDone /\ response = 200

\* C23 witness: the closing of a pull request is answered 200
C23_Witness ==
  /\ pc = "done"
  /\ Gate(req) = "route"
  /\ req.event = "pull_request" /\ req.action = "closed"
  /\ response = 200
  /\ calls = <<>> /\ comments = <<>>

\* C24: every delivery ends with exactly one HTTP response, of 200, 400,
\* 401, 405 and 500; no failure after the verification of the signature,
\* the parsing of the payload included, leaves handler without a response.
C24_EveryDeliveryAnswered ==
  /\ pc # "crashed"
  /\ pc = "done" => response \in {200, 400, 401, 405, 500}
  /\ pc \notin {"idle", "done"} => response = 0

\* C25: a delivery of a workflow whose payload lacks the URL the workflow
\* needs is answered 400 before the workflow is called, like one without
\* installation id.
C25_MissingUrlRejected ==
  (pc # "idle" /\ Gate(req) = "route" /\ HandledPair /\ ~req.urls) =>
    NothingDone /\ response = 400

\* the delivery is of a command that is not '/merge', or of a '/merge' of
\* another commenter than the author
RefusedCommand ==
  /\ CommentDelivery /\ SlashFirst
  /\ Command(req) # MergeCommand \/ req.commenter # PrAuthor

\* C26: an unknown command and a '/merge' of the wrong commenter are
\* answered with a comment and never with an HTTP failure of their own: the
\* workflow goes on to post the notice, the delivery is never answered 4xx,
\* it is answered 200 once the notice is posted, and 500 only when a call
\* of the api has thrown and nothing is posted.
C26_RefusalsAreComments ==
  RefusedCommand =>
    /\ response \in {0, 200, 500}
    /\ pc \in {"getPR", "getReviews", "postComment", "done"}
    /\ pc = "postComment" =>
         /\ response = 0
         /\ pending.kind =
              (IF Command(req) # MergeCommand THEN "invalidCommand" ELSE "notAuthor")
    /\ (pc = "done" /\ comments # <<>>) => response = 200
    /\ (pc = "done" /\ response = 500) => comments = <<>>
    /\ (pc = "done" /\ response = 200) => Len(comments) = 1

\* C26 witness: the '/merge' of alice is refused with a comment and the
\* delivery answered 200
C26_Witness ==
  /\ RefusedCommand
  /\ Command(req) = MergeCommand
  /\ pc = "done" /\ response = 200
  /\ Len(comments) = 1
  /\ comments[1].kind = "notAuthor"
  /\ comments[1].mention = "alice"

\* the verdict on the reviews the pull request has now
CurrentVerdict == checkApprovalStatus(pr, prReviews)

\* C28: when the merge request of api.mergePR is issued, the reviews the
\* pull request has at that moment, not only those fetched earlier in the
\* delivery, give both teams an approval and neither a block.
C28_MergeIssuedWhileApproved ==
  [][(pc = "mergePR_getPR" /\ pc' = "mergePR_put") =>
       CurrentVerdict.jumpOk /\ CurrentVerdict.anzaOk]_vars

\* the calls of the delivery so far: api.getPR, then api.getReviews, then
\* merge and comment calls
CallsInOrder ==
  /\ Len(calls) >= 1 => calls[1] = "getPR"
  /\ Len(calls) >= 2 => calls[2] = "getReviews"
  /\ \A k \in DOMAIN calls : k >= 3 => calls[k] \in {"mergePR", "postComment"}

\* C33: in a delivery of a submitted review or of a comment, the calls are
\* made in the order api.getPR, api.getReviews, then merge and comment
\* calls: no comment or merge call precedes the fetch of the reviews; while a
\* merge or comment call is under way the verdict of the delivery is the one
\* computed from the pull request and the reviews this delivery fetched,
\* reviews of the pull request at the time of the fetch, and a comment that
\* carries a status carries the status of that verdict.
C33_FetchThenVerdictThenEffect ==
  (ReviewDelivery \/ CommentDelivery) =>
    /\ CallsInOrder
    /\ comments # <<>> => Len(calls) >= 3
    /\ pc \in {"postComment", "mergePR_getPR", "mergePR_put"} =>
         /\ Len(calls) >= 3
         /\ FetchedIsFresh
         /\ prStatus = checkApprovalStatus(pr, fetched)
         /\ (pc = "postComment" /\ pending.kind \notin {"mergeSuccess", "mergeFailed"})
              => pending.statusMsg = FetchedStatusMsg

\* C33 witness: the author's '/merge' has fetched the pull request and its
\* reviews, merged, and is posting its notice, after a review was submitted
C33_Witness ==
  /\ CommentDelivery
  /\ pc = "postComment"
  /\ calls = <<"getPR", "getReviews", "mergePR", "postComment">>
  /\ Len(fetched) >= 1

\* C34: when every remote call returns or fails in the end, a delivery that
\* handler has taken up ends: handler sends its HTTP response, and the locals
\* of the workflow are gone with it.  Checked under SpecLive.
C34_EveryDeliveryResolves ==
  (pc \notin {"idle", "done"}) ~>
    (/\ pc = "done"
     /\ response \in {200, 400, 401, 405, 500}
     /\ pr = NoPR /\ fetched = <<>> /\ prStatus = NoVerdict /\ pending = NoComment)

\* C35: the failure notice is posted only in a delivery whose merge was
\* not performed: once api.mergePR has returned, which is when the success
\* notice is being posted, no step of the delivery turns to posting the
\* failure notice, also not the failure of that post.
C35_FailureNoticeOnlyWithoutMerge ==
  [][(pc = "postComment" /\ pending = SuccessNotice) => pending' # FailureNotice]_vars

\* C36: when handlePullRequestReview posts the block notice, the verdict
\* computed in the delivery has a team that is not OK, the reviewer the notice
\* names is in a blockedBy list of that verdict, and the status the notice
\* carries is not the ready message.  Stated for the deliveries whose review
\* is among the reviews fetched.
C36_BlockNoticeMeansBlocked ==
  (/\ ReviewDelivery /\ pc = "postComment" /\ pending.kind = "blocked"
   /\ \E k \in DOMAIN fetched :
        fetched[k] = [user |-> req.review.user, state |-> "CHANGES_REQUESTED"]) =>
    /\ ~(prStatus.jumpOk /\ prStatus.anzaOk)
    /\ pending.mention \in Range(prStatus.jumpBlockedBy) \cup Range(prStatus.anzaBlockedBy)
    /\ ~pending.statusMsg.ready

(***************************************************************************)
(* Claims about the verdict, checked under SpecVerdict.                     *)
(***************************************************************************)
\* the logins of roster that end the replay approved and not blocked
NetApproved(roster) ==
  {u \in Range(roster) : StateOf(status, u).approved /\ ~StateOf(status, u).blocked}

\* the logins of roster that end the replay blocked
NetBlocked(roster) == {u \in Range(roster) : StateOf(status, u).blocked}

\* C2: for every pair of rosters, a team is OK exactly when one of its
\* members ends the replay approved and not blocked and none of its members
\* ends it blocked; an OK team has an empty blockedBy list.
C2_TeamOkIffApprovedAndUnblocked ==
  \A jump \in Rosters, anza \in Rosters :
    LET v == Verdict(status, jump, anza)
    IN  /\ v.jumpOk = (NetApproved(jump) # {} /\ NetBlocked(jump) = {})
        /\ v.anzaOk = (NetApproved(anza) # {} /\ NetBlocked(anza) = {})
        /\ (v.jumpOk => v.jumpBlockedBy = <<>>)
        /\ (v.anzaOk => v.anzaBlockedBy = <<>>)

\* C2 witness: one team is OK while the other has an approval and a block
C2_Witness ==
  /\ StateOf(status, "alice").approved
  /\ StateOf(status, "bob").approved
  /\ StateOf(status, "carol").blocked
  /\ LET v == Verdict(status, <<"alice">>, <<"bob", "carol">>)
     IN  v.jumpOk /\ ~v.anzaOk /\ v.anzaBlockedBy = <<"carol">>

\* C10: for every pair of rosters, a blockedBy list holds exactly the members
\* of its roster that end the replay blocked, each once, in roster order.
IsSubsequenceInOrder(list, roster) ==
  \A i \in DOMAIN list, j \in DOMAIN list :
    i < j =>
      \E a \in DOMAIN roster, b \in DOMAIN roster :
        a < b /\ roster[a] = list[i] /\ roster[b] = list[j]

C10_BlockedByInRosterOrder ==
  \A jump \in Rosters, anza \in Rosters :
    LET v == Verdict(status, jump, anza)
    IN  /\ Range(v.jumpBlockedBy) = NetBlocked(jump)
        /\ Range(v.anzaBlockedBy) = NetBlocked(anza)
        /\ Len(v.jumpBlockedBy) = Cardinality(NetBlocked(jump))
        /\ Len(v.anzaBlockedBy) = Cardinality(NetBlocked(anza))
        /\ IsSubsequenceInOrder(v.jumpBlockedBy, jump)
        /\ IsSubsequenceInOrder(v.anzaBlockedBy, anza)

\* C10 witness: bob's first review arrived before alice's, both end blocked,
\* and the roster lists alice before bob
C10_Witness ==
  /\ Keys(status) = <<"bob", "alice">>
  /\ StateOf(status, "alice").blocked
  /\ StateOf(status, "bob").blocked
  /\ Verdict(status, <<"alice", "bob">>, <<"carol">>).jumpBlockedBy
       = <<"alice", "bob">>

\* C31: the verdict computation never fails: for every mapping a replay
\* leaves and every pair of rosters, also an empty roster and a roster that
\* holds no reviewer, the result is a verdict of two booleans and two lists of
\* roster members; a pull request without the requested_reviewers field has
\* no requested reviewer; with an empty roster the team is not OK and its
\* blockedBy list is empty.
C31_VerdictIsTotal ==
  /\ RequestedLogins(NoPR) = {}
  /\ \A p \in PullRequests : RequestedLogins(p) \subseteq Users
  /\ \A jump \in Rosters, anza \in Rosters :
       LET v == Verdict(status, jump, anza)
       IN  /\ DOMAIN v = {"jumpOk", "anzaOk", "jumpBlockedBy", "anzaBlockedBy"}
           /\ v.jumpOk \in BOOLEAN
           /\ v.anzaOk \in BOOLEAN
           /\ Range(v.jumpBlockedBy) \subseteq Range(jump)
           /\ Range(v.anzaBlockedBy) \subseteq Range(anza)
           /\ (jump = <<>> => ~v.jumpOk /\ v.jumpBlockedBy = <<>>)
           /\ (anza = <<>> => ~v.anzaOk /\ v.anzaBlockedBy = <<>>)

\* C31 witness: alice ends the replay approved and bob blocked, carol has
\* submitted nothing: a roster of carol alone holds no reviewer, and a roster
\* of alice and carol holds a member without a key
C31_Witness ==
  /\ StateOf(status, "alice").approved
  /\ StateOf(status, "bob").blocked
  /\ ~HasKey(status, "carol")
  /\ Verdict(status, <<>>, <<"carol">>) =
       [jumpOk |-> FALSE, anzaOk |-> FALSE, jumpBlockedBy |-> <<>>,
        anzaBlockedBy |-> <<>>]

\* C32: for every pair of rosters and every login on both, the login's
\* approval counts for both teams, so that both are OK when it ends the
\* replay approved and no member of either roster ends it blocked, and the
\* login's block puts it in both blockedBy lists and leaves neither team OK.
C32_SharedMemberCountsForBothTeams ==
  \A jump \in Rosters, anza \in Rosters :
    \A u \in Range(jump) \cap Range(anza) :
      LET v == Verdict(status, jump, anza)
          s == StateOf(status, u)
      IN  /\ (s.approved /\ ~s.blocked /\ NetBlocked(jump) = {} /\ NetBlocked(anza) = {})
                => v.jumpOk /\ v.anzaOk
          /\ s.blocked =>
                /\ u \in Range(v.jumpBlockedBy)
                /\ u \in Range(v.anzaBlockedBy)
                /\ ~v.jumpOk
                /\ ~v.anzaOk

\* C32 witness: bob, who is on both configured rosters, is the only reviewer
\* and has approved: both teams are OK
C32_Witness ==
  /\ Keys(status) = <<"bob">>
  /\ StateOf(status, "bob").approved
  /\ "bob" \in Range(JUMP_APPROVERS) \cap Range(ANZA_APPROVERS)
  /\ LET v == Verdict(status, JUMP_APPROVERS, ANZA_APPROVERS)
     IN  v.jumpOk /\ v.anzaOk

(***************************************************************************)
(* Claims about the replay, checked under SpecApproval.                    *)
(***************************************************************************)
Review(u, s) == [user |-> u, state |-> s]

Approved == [approved |-> TRUE, blocked |-> FALSE]

Blocked == [approved |-> FALSE, blocked |-> TRUE]

\* the states the switch knows
KnownStates == {"APPROVED", "CHANGES_REQUESTED", "DISMISSED", "COMMENTED", "PENDING"}

\* the roster of every login, in alphabetical order
EveryUser == <<"alice", "bob", "carol">>

\* C3: a requested reviewer ends every replay neither approved nor blocked,
\* is neither in the blockedBy list nor among the approvers of a roster that
\* holds every login, and a roster of that login alone is not OK.
C3_RequestedReviewerContributesNothing ==
  LET all == Verdict(status, EveryUser, EveryUser)
      approvers == Range(Approvers(status, EveryUser))
  IN  \A u \in requestedReviewers :
        /\ StateOf(status, u) = NewReviewerState
        /\ u \notin Range(all.jumpBlockedBy)
        /\ u \notin Range(all.anzaBlockedBy)
        /\ u \notin approvers
        /\ LET v == Verdict(status, <<u>>, <<u>>)
           IN  ~v.jumpOk /\ ~v.anzaOk /\ v.jumpBlockedBy = <<>> /\ v.anzaBlockedBy = <<>>

\* C3 witness: alice is a requested reviewer who asked for changes first and
\* approved last, with another reviewer in between
C3_Witness ==
  /\ "alice" \in requestedReviewers
  /\ reviews = <<Review("alice", "CHANGES_REQUESTED"), Review("bob", "APPROVED"),
                 Review("alice", "APPROVED")>>

\* C4: for a reviewer who is not requested, approval then changes requested
\* leaves the reviewer blocked, the reverse order leaves the reviewer
\* approved, and two approvals do not outvote a later request for changes.
C4_ReplayFollowsOrder ==
  \A u \in Users \ requestedReviewers :
    /\ reviews = <<Review(u, "APPROVED"), Review(u, "CHANGES_REQUESTED")>>
         => StateOf(status, u) = Blocked
    /\ reviews = <<Review(u, "CHANGES_REQUESTED"), Review(u, "APPROVED")>>
         => StateOf(status, u) = Approved
    /\ reviews = <<Review(u, "APPROVED"), Review(u, "APPROVED"),
                   Review(u, "CHANGES_REQUESTED")>>
         => StateOf(status, u) = Blocked

\* C4 witness: alice, not requested, approved and then requested changes
C4_Witness ==
  /\ "alice" \notin requestedReviewers
  /\ reviews = <<Review("alice", "APPROVED"), Review("alice", "CHANGES_REQUESTED")>>

\* C5: right after a review by a reviewer who is not requested, the
\* reviewer's state is the one the table gives for the review's state,
\* whatever it was before.
C5_TransitionTable ==
  reviews # <<>> =>
    LET r == reviews[Len(reviews)]
        s == toUpperCase(r.state)
        now == StateOf(status, r.user)
    IN  r.user \notin requestedReviewers =>
          /\ s = "APPROVED" => now = Approved
          /\ s = "CHANGES_REQUESTED" => now = Blocked
          /\ s = "DISMISSED" => now = NewReviewerState
          /\ s = "PENDING" => now = NewReviewerState

\* C5 witness: alice, not requested, had approved and then submitted a
\* pending review
C5_Witness ==
  /\ "alice" \notin requestedReviewers
  /\ reviews = <<Review("alice", "APPROVED"), Review("alice", "PENDING")>>
  /\ StateOf(status, "alice") = NewReviewerState

\* C6: a step of the loop on a comment, or on a state the switch does not
\* know, by a reviewer who is not requested leaves that reviewer's approved
\* and blocked as they were.
C6_CommentLeavesStateUnchanged ==
  [][\A r \in ReviewSubmissions :
       ( /\ reviews' = Append(reviews, r)
         /\ r.user \notin requestedReviewers
         /\ (toUpperCase(r.state) = "COMMENTED"
               \/ toUpperCase(r.state) \notin KnownStates) )
       => StateOf(status', r.user) = StateOf(status, r.user)]_vars

\* C6 witness: alice's approval has survived a comment and an unknown state
C6_Witness ==
  /\ "alice" \notin requestedReviewers
  /\ reviews = <<Review("alice", "APPROVED"), Review("alice", "COMMENTED"),
                 Review("alice", "REQUEST_CHANGES")>>
  /\ StateOf(status, "alice") = Approved

\* C7: with no review replayed, both teams are not OK and both blockedBy
\* lists are empty, for every pair of rosters and every set of requested
\* reviewers.
C7_EmptyHistory ==
  reviews = <<>> =>
    \A jump \in Rosters, anza \in Rosters :
      Verdict(status, jump, anza)
        = [jumpOk |-> FALSE, anzaOk |-> FALSE,
           jumpBlockedBy |-> <<>>, anzaBlockedBy |-> <<>>]

\* C7 witness: an empty list, with requested reviewers
C7_Witness ==
  /\ reviews = <<>>
  /\ requestedReviewers = {"alice", "bob"}
  /\ status = EmptyStatus

\* C8: after every step of the loop no login is both approved and blocked.
C8_NeverApprovedAndBlocked ==
  \A k \in DOMAIN status : ~(status[k].approved /\ status[k].blocked)

\* C8 witness: alice requested changes after approving
C8_Witness ==
  /\ reviews = <<Review("alice", "APPROVED"), Review("alice", "CHANGES_REQUESTED")>>
  /\ StateOf(status, "alice").blocked

\* the scenario of C11
C11_Reviews == <<Review("alice", "APPROVED"), Review("carol", "CHANGES_REQUESTED")>>

\* C11: with rosters TeamA = (alice, bob) and TeamB = (carol), no requested
\* reviewers and the reviews alice: Approved, carol: ChangesRequested, the
\* verdict is teamAOk, not teamBOk, teamABlockedBy = (), teamBBlockedBy =
\* (carol), and the status message has a missing-approval clause for team B
\* and a blocked-by clause naming carol.
C11_ApprovedAndBlockedScenario ==
  (reviews = C11_Reviews /\ requestedReviewers = {}) =>
    LET v == Verdict(status, <<"alice", "bob">>, <<"carol">>)
        m == buildStatusMessage(v)
    IN  /\ v = [jumpOk |-> TRUE, anzaOk |-> FALSE,
                jumpBlockedBy |-> <<>>, anzaBlockedBy |-> <<"carol">>]
        /\ ~m.ready
        /\ TeamsIn(m.missing) = {"Anza"}
        /\ TeamsIn(m.blocked) = {"Anza"}
        /\ LoginsFor(m.blocked, "Anza") = {<<"carol">>}

\* C11 witness: the two reviews of the scenario have been replayed
C11_Witness ==
  /\ reviews = C11_Reviews
  /\ requestedReviewers = {}
  /\ StateOf(status, "alice") = Approved
  /\ StateOf(status, "carol") = Blocked

\* the teams of a verdict that are not OK, and those somebody blocks
TeamsNotOk(v) ==
  (IF v.jumpOk THEN {} ELSE {"Jump"}) \cup (IF v.anzaOk THEN {} ELSE {"Anza"})

TeamsBlocked(v) ==
  (IF v.jumpBlockedBy = <<>> THEN {} ELSE {"Jump"})
    \cup (IF v.anzaBlockedBy = <<>> THEN {} ELSE {"Anza"})

\* C12: buildStatusMessage returns the fixed ready message exactly when both
\* teams are OK; otherwise its missing-approval clause names exactly the
\* teams that are not OK and its blocked-by clause names exactly the teams
\* with blockers, each with its blockers only, so that a team that is not OK
\* and has blockers is in both clauses.  Checked under SpecVerdict.
C12_StatusMessageClauses ==
  \A jump \in Rosters, anza \in Rosters :
    LET v == Verdict(status, jump, anza)
        m == buildStatusMessage(v)
    IN  /\ (m = ReadyMessage) <=> (v.jumpOk /\ v.anzaOk)
        /\ m.ready <=> (m = ReadyMessage)
        /\ ~m.ready =>
             /\ TeamsIn(m.missing) = TeamsNotOk(v)
             /\ Len(m.missing) = Cardinality(TeamsNotOk(v))
             /\ TeamsIn(m.blocked) = TeamsBlocked(v)
             /\ Len(m.blocked) = Cardinality(TeamsBlocked(v))
             /\ LoginsFor(m.blocked, "Jump") \subseteq {v.jumpBlockedBy}
             /\ LoginsFor(m.blocked, "Anza") \subseteq {v.anzaBlockedBy}
             /\ (TeamsNotOk(v) \cap TeamsBlocked(v))
                  \subseteq (TeamsIn(m.missing) \cap TeamsIn(m.blocked))

\* C12 witness: alice blocks Jump, which nobody approved, and Anza is OK:
\* Jump is in both clauses of the message, Anza in none
C12_Witness ==
  LET v == Verdict(status, JUMP_APPROVERS, ANZA_APPROVERS)
      m == buildStatusMessage(v)
  IN  /\ v.jumpBlockedBy = <<"alice">>
      /\ v.anzaOk
      /\ TeamsIn(m.missing) = {"Jump"}
      /\ LoginsFor(m.blocked, "Jump") = {<<"alice">>}

\* the states that set a reviewer's state
DecisiveStates == {"APPROVED", "CHANGES_REQUESTED", "DISMISSED", "PENDING"}

\* the state, in upper case, of the last review of u in the list that is one
\* of the decisive states, or NONE
LastDecisive(u) ==
  LET idx == {k \in DOMAIN reviews :
                /\ reviews[k].user = u
                /\ toUpperCase(reviews[k].state) \in DecisiveStates}
  IN  IF idx = {} THEN "NONE"
      ELSE toUpperCase(reviews[CHOOSE k \in idx : \A j \in idx : j <= k].state)

\* C37: after the replay a reviewer who is not requested is approved exactly
\* when the reviewer's last review that is approved, changes requested,
\* dismissed or pending is an approval, blocked exactly when it is a request
\* for changes, and neither without such a review, whatever other reviewers
\* submitted and whatever comments and unknown states the reviewer submitted.
C37_LastDecisiveReviewDecides ==
  \A u \in Users \ requestedReviewers :
    StateOf(status, u) =
      [approved |-> LastDecisive(u) = "APPROVED",
       blocked |-> LastDecisive(u) = "CHANGES_REQUESTED"]

\* C37 witness: alice asked for changes, approved in lower case and then
\* submitted a state the switch does not know; she ends approved
C37_Witness ==
  /\ requestedReviewers = {}
  /\ reviews = <<Review("alice", "CHANGES_REQUESTED"), Review("alice", "approved"),
                 Review("alice", "REQUEST_CHANGES")>>
  /\ StateOf(status, "alice") = Approved

\* the list without the reviews of the requested reviewers
WithoutRequested == SelectSeq(reviews, LAMBDA r : r.user \notin requestedReviewers)

\* C38: the verdict from the mapping the replay has left, with the requested
\* reviewers, is the verdict from the replay of the list without any review
\* of a requested reviewer and with no requested reviewer, and every login
\* reads in the one mapping as in the other.
C38_ResetIsDeletion ==
  LET deleted == Replay(WithoutRequested, RequestedLogins(NoPR), EmptyStatus)
  IN  /\ Verdict(status, JUMP_APPROVERS, ANZA_APPROVERS)
           = Verdict(deleted, JUMP_APPROVERS, ANZA_APPROVERS)
      /\ \A u \in Users : StateOf(status, u) = StateOf(deleted, u)

\* C38 witness: bob, on both rosters and requested again, had asked for
\* changes; alice and carol approved, and both teams are OK
C38_Witness ==
  /\ requestedReviewers = {"bob"}
  /\ reviews = <<Review("bob", "CHANGES_REQUESTED"), Review("alice", "APPROVED"),
                 Review("carol", "APPROVED")>>
  /\ LET v == Verdict(status, JUMP_APPROVERS, ANZA_APPROVERS)
     IN  v.jumpOk /\ v.anzaOk

(***************************************************************************)
(* Claim about repeated computations, checked under SpecRepeated.          *)
(***************************************************************************)
\* C9: the mapping, and with it the verdict for any rosters, is the replay of
\* the current list from the empty mapping, whatever was computed before.
C9_NoHiddenState ==
  status = Replay(reviews, requestedReviewers, EmptyStatus)

\* C9 witness: a second computation, after one on a non-empty list, has
\* replayed an approval and a request for changes
C9_Witness ==
  /\ ~fresh
  /\ Len(reviews) >= 2
  /\ \E u \in Users : StateOf(status, u).approved
  /\ \E u \in Users : StateOf(status, u).blocked

====
